---- MODULE Spec2Model ----
(***************************************************************************)
(* Model of the JSON extraction / repair / normalization core of           *)
(* server/main.py (erd-SchemaFlow): the balanced-value scanner, the        *)
(* array-head unwrapper, the heuristic repairer, the response cleaner,     *)
(* the decoder parse_model_json_response, the schema normalizer            *)
(* normalize_table_result and the attempt loop of create_table_ai.         *)
(*                                                                         *)
(* Texts are sequences of one-character strings.  Python indices are       *)
(* 0-based; the model's are 1-based, and "not found" (-1) is 0.            *)
(*                                                                         *)
(* Left out: the interpreter's resource limits (json.loads raises          *)
(* RecursionError on values nested deeper than the recursion limit, which  *)
(* no text of the lengths explored here reaches), the token figures of     *)
(* the fallback's metadata, the wording of the parser's error messages,    *)
(* and the path of create_table_ai taken when no model is loaded.          *)
(* Number literals are kept as their text.                                 *)
(***************************************************************************)
EXTENDS Integers, Sequences, FiniteSets, TLC

(* ------------------------------------------------------------------ *)
(* Characters and text helpers                                         *)
(* ------------------------------------------------------------------ *)
LB == "{"
RB == "}"
LS == "["
RS == "]"
DQ == "\""
BS == "\\"
NL == "\n"
SP == " "
US == "_"
\* The backtick, which the lexer of TLA+ does not admit in a string: one
\* character of the model like the others, written by name.
BQ == "BACKTICK"

\* str.isspace() for the characters of the model (the \s of re, str.strip()).
IsSpace(ch) == ch \in {" ", "\n", "\t", "\r", "\f"}

\* The whitespace json.loads skips between tokens (json.decoder.WHITESPACE).
IsJsonWs(ch) == ch \in {" ", "\n", "\t", "\r"}

Digits == {"0", "1", "2", "3", "4", "5", "6", "7", "8", "9"}
LowerLetters == {"a", "b", "c", "d", "e", "f", "g", "h", "i", "j", "k", "l", "m",
                 "n", "o", "p", "q", "r", "s", "t", "u", "v", "w", "x", "y", "z"}
UpperLetters == {"A", "B", "C", "D", "E", "F", "G", "H", "I", "J", "K", "L", "M",
                 "N", "O", "P", "Q", "R", "S", "T", "U", "V", "W", "X", "Y", "Z"}

\* re's \w on the characters of the model.
IsWord(ch) == ch \in Digits \cup LowerLetters \cup UpperLetters \cup {"_"}

LowerOf == [ch \in UpperLetters |->
  CASE ch = "A" -> "a" [] ch = "B" -> "b" [] ch = "C" -> "c" [] ch = "D" -> "d"
    [] ch = "E" -> "e" [] ch = "F" -> "f" [] ch = "G" -> "g" [] ch = "H" -> "h"
    [] ch = "I" -> "i" [] ch = "J" -> "j" [] ch = "K" -> "k" [] ch = "L" -> "l"
    [] ch = "M" -> "m" [] ch = "N" -> "n" [] ch = "O" -> "o" [] ch = "P" -> "p"
    [] ch = "Q" -> "q" [] ch = "R" -> "r" [] ch = "S" -> "s" [] ch = "T" -> "t"
    [] ch = "U" -> "u" [] ch = "V" -> "v" [] ch = "W" -> "w" [] ch = "X" -> "x"
    [] ch = "Y" -> "y" [] OTHER -> "z"]

\* str.lower(), one character.
LowerChar(ch) == IF ch \in UpperLetters THEN LowerOf[ch] ELSE ch

\* str.lower().
Lower(s) == [k \in 1..Len(s) |-> LowerChar(s[k])]

\* s[k-1:] of Python, for a 1-based k.
Drop(s, k) == SubSeq(s, k, Len(s))

\* s.startswith(p, k-1): p occurs in s at 1-based index k.
StartsWithAt(s, k, p) ==
  /\ k >= 1
  /\ k + Len(p) - 1 <= Len(s)
  /\ \A m \in 1..Len(p) : s[k + m - 1] = p[m]

\* s.find(p) + 1: the lowest 1-based index where p occurs in s, 0 when none.
Find(s, p) ==
  IF \E k \in 1..Len(s) : StartsWithAt(s, k, p)
  THEN CHOOSE k \in 1..Len(s) :
         /\ StartsWithAt(s, k, p)
         /\ \A m \in 1..(k - 1) : ~StartsWithAt(s, m, p)
  ELSE 0

\* p in s.
Contains(s, p) == IF p = <<>> THEN TRUE ELSE Find(s, p) # 0

\* The least element of a non-empty set of indices.
Least(ks) == CHOOSE k \in ks : \A m \in ks : k <= m
Greatest(ks) == CHOOSE k \in ks : \A m \in ks : m <= k

\* s.lstrip(), s.rstrip(), s.strip().
LStrip(s) ==
  LET ks == {k \in 1..Len(s) : ~IsSpace(s[k])}
  IN  IF ks = {} THEN <<>> ELSE Drop(s, Least(ks))

RStrip(s) ==
  LET ks == {k \in 1..Len(s) : ~IsSpace(s[k])}
  IN  IF ks = {} THEN <<>> ELSE SubSeq(s, 1, Greatest(ks))

Strip(s) == RStrip(LStrip(s))

\* s.replace(old, new) for a non-empty old: left to right, non-overlapping.
RECURSIVE Replace(_, _, _)
Replace(s, old, new) ==
  LET k == Find(s, old)
  IN  IF k = 0 THEN s
      ELSE SubSeq(s, 1, k - 1) \o new \o Replace(Drop(s, k + Len(old)), old, new)

\* s.count(ch) for one character.
Count(s, ch) == Cardinality({k \in 1..Len(s) : s[k] = ch})

\* ch * n.
Repeat(ch, n) == [k \in 1..n |-> ch]

\* Optional[str]: None, or a text.
None == [ok |-> FALSE, s |-> <<>>]
Some(s) == [ok |-> TRUE, s |-> s]

(* ------------------------------------------------------------------ *)
(* Balanced-value scanner: extract_first_json_value                    *)
(* ------------------------------------------------------------------ *)

\* A start index that prefers the first brace to an earlier bracket.
scan_start_prefers_object(text) ==
  IF Find(text, <<LB>>) # 0 THEN Find(text, <<LB>>) ELSE Find(text, <<LS>>)

\* The start index: min of text.find("{") and text.find("["), 0 when neither.
scan_start(text) ==
  LET start_obj == Find(text, <<LB>>)
      start_arr == Find(text, <<LS>>)
  IN  IF start_obj = 0 THEN start_arr
      ELSE IF start_arr = 0 THEN start_obj
      ELSE IF start_obj < start_arr THEN start_obj ELSE start_arr

\* The loop's state before its first iteration.
scan_init == [stack |-> <<>>, in_string |-> FALSE, escape |-> FALSE, status |-> "run"]

\* A scanner whose string state never honours the backslash escape.
scan_step_no_escape(st, ch) ==
  IF st.in_string
  THEN IF ch = DQ THEN [st EXCEPT !.in_string = FALSE] ELSE st
  ELSE IF ch = DQ THEN [st EXCEPT !.in_string = TRUE]
  ELSE IF ch \in {LB, LS} THEN [st EXCEPT !.stack = Append(@, ch)]
  ELSE IF ch \in {RB, RS}
  THEN IF st.stack = <<>> THEN [st EXCEPT !.status = "none"]
       ELSE LET top == st.stack[Len(st.stack)]
                popped == SubSeq(st.stack, 1, Len(st.stack) - 1)
            IN  IF (top = LB /\ ch = RB) \/ (top = LS /\ ch = RS)
                THEN [st EXCEPT !.stack = popped,
                                !.status = IF popped = <<>> THEN "found" ELSE "run"]
                ELSE [st EXCEPT !.status = "none"]
  ELSE st

\* A scanner that pops the stack on any closing bracket, whatever its kind.
scan_step_any_closer(st, ch) ==
  IF st.in_string
  THEN IF st.escape THEN [st EXCEPT !.escape = FALSE]
       ELSE IF ch = BS THEN [st EXCEPT !.escape = TRUE]
       ELSE IF ch = DQ THEN [st EXCEPT !.in_string = FALSE]
       ELSE st
  ELSE IF ch = DQ THEN [st EXCEPT !.in_string = TRUE]
  ELSE IF ch \in {LB, LS} THEN [st EXCEPT !.stack = Append(@, ch)]
  ELSE IF ch \in {RB, RS}
  THEN IF st.stack = <<>> THEN [st EXCEPT !.status = "none"]
       ELSE [st EXCEPT !.stack = SubSeq(st.stack, 1, Len(st.stack) - 1),
                       !.status = IF Len(st.stack) = 1 THEN "found" ELSE "run"]
  ELSE st

\* One iteration of the loop on character ch: status "found" is the return of
\* text[start : i + 1], "none" the return of None, "run" the next iteration.
scan_step(st, ch) ==
  IF st.in_string
  THEN IF st.escape THEN [st EXCEPT !.escape = FALSE]
       ELSE IF ch = BS THEN [st EXCEPT !.escape = TRUE]
       ELSE IF ch = DQ THEN [st EXCEPT !.in_string = FALSE]
       ELSE st
  ELSE IF ch = DQ THEN [st EXCEPT !.in_string = TRUE]
  ELSE IF ch \in {LB, LS} THEN [st EXCEPT !.stack = Append(@, ch)]
  ELSE IF ch \in {RB, RS}
  THEN IF st.stack = <<>> THEN [st EXCEPT !.status = "none"]
       ELSE LET top == st.stack[Len(st.stack)]
                popped == SubSeq(st.stack, 1, Len(st.stack) - 1)
            IN  IF (top = LB /\ ch = RB) \/ (top = LS /\ ch = RS)
                THEN [st EXCEPT !.stack = popped,
                                !.status = IF popped = <<>> THEN "found" ELSE "run"]
                ELSE [st EXCEPT !.status = "none"]
  ELSE st

\* The loop from index k in state st: the index of the closing character of
\* the candidate, 0 when the scan returns None.
RECURSIVE scan_loop(_, _, _)
scan_loop(text, k, st) ==
  IF k > Len(text) THEN 0
  ELSE LET nx == scan_step(st, text[k])
       IN  IF nx.status = "found" THEN k
           ELSE IF nx.status = "none" THEN 0
           ELSE scan_loop(text, k + 1, nx)

extract_first_json_value(text) ==
  LET start == scan_start(text)
      last == IF start = 0 THEN 0 ELSE scan_loop(text, start, scan_init)
  IN  IF text = <<>> \/ start = 0 \/ last = 0 THEN None
      ELSE Some(SubSeq(text, start, last))

(* ------------------------------------------------------------------ *)
(* Array-head unwrapper: extract_first_json_object_from_array          *)
(* ------------------------------------------------------------------ *)
extract_first_json_object_from_array(array_text) ==
  LET s == LStrip(array_text)
      obj == extract_first_json_value(Tail(s))
  IN  IF array_text = <<>> THEN None
      ELSE IF ~StartsWithAt(s, 1, <<LS>>) THEN None
      ELSE IF obj.ok /\ obj.s # <<>> /\ StartsWithAt(LStrip(obj.s), 1, <<LB>>) THEN obj
      ELSE None

(* ------------------------------------------------------------------ *)
(* Strict parse: json.loads of the standard library                    *)
(*                                                                     *)
(* A decoded value is a record [t, s, items, keys]: t is the kind      *)
(* ("null", "true", "false", "num", "str", "arr", "obj"), s the text   *)
(* of a string or the literal of a number, items the elements of an    *)
(* array or the values of an object, keys the keys of an object in     *)
(* insertion order.  The texts the specifications feed hold no sign,   *)
(* fraction or exponent, so a number's literal identifies its value.   *)
(* ------------------------------------------------------------------ *)
JV(t, s, items, keys) == [t |-> t, s |-> s, items |-> items, keys |-> keys]
JNull == JV("null", <<>>, <<>>, <<>>)
JTrue == JV("true", <<>>, <<>>, <<>>)
JFalse == JV("false", <<>>, <<>>, <<>>)
JNum(s) == JV("num", s, <<>>, <<>>)
JStr(s) == JV("str", s, <<>>, <<>>)
JArr(items) == JV("arr", <<>>, items, <<>>)
JObj(keys, items) == JV("obj", <<>>, items, keys)
JEmptyObj == JObj(<<>>, <<>>)

\* The index of key in the object's keys, 0 when absent.
KeyIndex(obj, key) ==
  IF \E k \in 1..Len(obj.keys) : obj.keys[k] = key
  THEN CHOOSE k \in 1..Len(obj.keys) : obj.keys[k] = key
  ELSE 0

\* d[key] = val on a dict: a present key keeps its place, a new one goes last.
DictSet(obj, key, val) ==
  LET k == KeyIndex(obj, key)
  IN  IF k = 0 THEN JObj(Append(obj.keys, key), Append(obj.items, val))
      ELSE JObj(obj.keys, [obj.items EXCEPT ![k] = val])

\* key in d.
DictHas(obj, key) == obj.t = "obj" /\ KeyIndex(obj, key) # 0

\* d.get(key, default).
DictGet(obj, key, default) ==
  IF DictHas(obj, key) THEN obj.items[KeyIndex(obj, key)] ELSE default

\* A parse step's result: ok, the index after what was read, the value.
PFail == [ok |-> FALSE, end |-> 0, val |-> JNull]
POk(end, val) == [ok |-> TRUE, end |-> end, val |-> val]

\* WHITESPACE.match(s, k).end(): the first index at or after k that holds no
\* whitespace, Len(s) + 1 when there is none.
RECURSIVE skip_ws(_, _)
skip_ws(s, k) == IF k <= Len(s) /\ IsJsonWs(s[k]) THEN skip_ws(s, k + 1) ELSE k

HexDigits == Digits \cup {"a", "b", "c", "d", "e", "f", "A", "B", "C", "D", "E", "F"}

\* What a backslash escape other than \u decodes to (json.decoder.BACKSLASH).
IsSimpleEscape(ch) == ch \in {DQ, BS, "/", "b", "f", "n", "r", "t"}
UnEscape(ch) ==
  CASE ch = "n" -> "\n" [] ch = "t" -> "\t" [] ch = "r" -> "\r"
    [] ch = "b" -> "BACKSPACE" [] ch = "f" -> "\f" [] OTHER -> ch

\* Control characters, which a strict string may not hold unescaped.
IsControl(ch) == ch \in {"\n", "\t", "\r", "\f", "BACKSPACE"}

\* py_scanstring from the index after the opening quote: the string's text and
\* the index after its closing quote.  A \uXXXX escape decodes to one character,
\* named by its four digits.
RECURSIVE scanstring(_, _, _)
scanstring(s, k, acc) ==
  IF k > Len(s) THEN PFail
  ELSE IF s[k] = DQ THEN POk(k + 1, JStr(acc))
  ELSE IF s[k] = BS
  THEN IF k + 1 > Len(s) THEN PFail
       ELSE IF s[k + 1] = "u"
       THEN IF k + 5 <= Len(s) /\ \A m \in 2..5 : s[k + m] \in HexDigits
            THEN scanstring(s, k + 6,
                   Append(acc, "u" \o s[k + 2] \o s[k + 3] \o s[k + 4] \o s[k + 5]))
            ELSE PFail
       ELSE IF IsSimpleEscape(s[k + 1])
       THEN scanstring(s, k + 2, Append(acc, UnEscape(s[k + 1])))
       ELSE PFail
  ELSE IF IsControl(s[k]) THEN PFail
  ELSE scanstring(s, k + 1, Append(acc, s[k]))

\* The end of the run of digits that starts at k (k itself when there is none).
RECURSIVE digits_end(_, _)
digits_end(s, k) == IF k <= Len(s) /\ s[k] \in Digits THEN digits_end(s, k + 1) ELSE k

\* NUMBER_RE.match(s, k): (-?(?:0|[1-9]\d*))(\.\d+)?([eE][-+]?\d+)? ; the index
\* after the match, 0 when there is no match.  int_end is the end of the
\* integer part from its first digit, frac_end adds the fraction to a match
\* that ends at i1, exp_end adds the exponent to one that ends at i2.
int_end(s, k) ==
  IF k > Len(s) \/ s[k] \notin Digits THEN 0
  ELSE IF s[k] = "0" THEN k + 1
  ELSE digits_end(s, k)

frac_end(s, i1) ==
  IF i1 # 0 /\ i1 + 1 <= Len(s) /\ s[i1] = "." /\ s[i1 + 1] \in Digits
  THEN digits_end(s, i1 + 1) ELSE i1

exp_digits_end(s, i2, e1) ==
  IF e1 <= Len(s) /\ s[e1] \in Digits THEN digits_end(s, e1) ELSE i2

exp_end(s, i2) ==
  IF i2 # 0 /\ i2 <= Len(s) /\ s[i2] \in {"e", "E"}
  THEN exp_digits_end(s, i2, IF i2 + 1 <= Len(s) /\ s[i2 + 1] \in {"-", "+"}
                             THEN i2 + 2 ELSE i2 + 1)
  ELSE i2

match_number(s, k) ==
  exp_end(s, frac_end(s, int_end(s, IF k <= Len(s) /\ s[k] = "-" THEN k + 1 ELSE k)))

RECURSIVE parse_value(_, _)
RECURSIVE parse_array(_, _, _)
RECURSIVE parse_object(_, _, _)

\* JSONArray once an element was read: at index e, "]" ends the array and ","
\* leads to the next element.
array_next(s, e, items) ==
  IF e > Len(s) THEN PFail
  ELSE IF s[e] = RS THEN POk(e + 1, JArr(items))
  ELSE IF s[e] = "," THEN parse_array(s, skip_ws(s, e + 1), items)
  ELSE PFail

array_after_value(s, v, acc) ==
  IF v.ok THEN array_next(s, skip_ws(s, v.end), Append(acc, v.val)) ELSE PFail

\* JSONArray from the first character of an element at index k.
parse_array(s, k, acc) == array_after_value(s, parse_value(s, k), acc)

\* JSONObject once a pair was read: at index e, "}" ends the object and ","
\* leads to the next key.
object_next(s, e, pairs) ==
  IF e > Len(s) THEN PFail
  ELSE IF s[e] = RB THEN POk(e + 1, pairs)
  ELSE IF s[e] = "," THEN parse_object(s, skip_ws(s, e + 1), pairs)
  ELSE PFail

object_after_value(s, key, v, acc) ==
  IF v.ok THEN object_next(s, skip_ws(s, v.end), DictSet(acc, key, v.val)) ELSE PFail

\* The colon at index c, then the value.
object_colon(s, key, c, acc) ==
  IF c <= Len(s) /\ s[c] = ":"
  THEN object_after_value(s, key, parse_value(s, skip_ws(s, c + 1)), acc)
  ELSE PFail

object_after_key(s, key, acc) ==
  IF key.ok THEN object_colon(s, key.val.s, skip_ws(s, key.end), acc) ELSE PFail

\* JSONObject from the opening quote of a key at index k.
parse_object(s, k, acc) ==
  IF k <= Len(s) /\ s[k] = DQ
  THEN object_after_key(s, scanstring(s, k + 1, <<>>), acc)
  ELSE PFail

\* The body of an object or an array from the first index e after its
\* opening bracket and whitespace.
object_body(s, e) ==
  IF e > Len(s) THEN PFail
  ELSE IF s[e] = RB THEN POk(e + 1, JEmptyObj)
  ELSE parse_object(s, e, JEmptyObj)

array_body(s, e) ==
  IF e > Len(s) THEN PFail
  ELSE IF s[e] = RS THEN POk(e + 1, JArr(<<>>))
  ELSE parse_array(s, e, <<>>)

\* A number that ends before index e (0: no number), else a constant.
number_or_constant(s, k, e) ==
  IF e # 0 THEN POk(e, JNum(SubSeq(s, k, e - 1)))
  ELSE IF StartsWithAt(s, k, <<"N", "a", "N">>) THEN POk(k + 3, JNum(<<"n", "a", "n">>))
  ELSE IF StartsWithAt(s, k, <<"I", "n", "f", "i", "n", "i", "t", "y">>)
  THEN POk(k + 8, JNum(<<"i", "n", "f">>))
  ELSE IF StartsWithAt(s, k, <<"-", "I", "n", "f", "i", "n", "i", "t", "y">>)
  THEN POk(k + 9, JNum(<<"-", "i", "n", "f">>))
  ELSE PFail

\* scan_once at index k (json.scanner.py_make_scanner).
parse_value(s, k) ==
  IF k > Len(s) THEN PFail
  ELSE IF s[k] = DQ THEN scanstring(s, k + 1, <<>>)
  ELSE IF s[k] = LB THEN object_body(s, skip_ws(s, k + 1))
  ELSE IF s[k] = LS THEN array_body(s, skip_ws(s, k + 1))
  ELSE IF StartsWithAt(s, k, <<"n", "u", "l", "l">>) THEN POk(k + 4, JNull)
  ELSE IF StartsWithAt(s, k, <<"t", "r", "u", "e">>) THEN POk(k + 4, JTrue)
  ELSE IF StartsWithAt(s, k, <<"f", "a", "l", "s", "e">>) THEN POk(k + 5, JFalse)
  ELSE number_or_constant(s, k, match_number(s, k))

\* A strict parse's outcome: the value, or JSONDecodeError.
JsonError == [ok |-> FALSE, val |-> JNull]

\* A parser that accepts a value followed by anything.
json_loads_prefix(s) ==
  IF parse_value(s, skip_ws(s, 1)).ok
  THEN [ok |-> TRUE, val |-> parse_value(s, skip_ws(s, 1)).val]
  ELSE JsonError

\* The value read from s up to r.end, when nothing but whitespace follows.
loads_result(s, r) ==
  IF r.ok /\ skip_ws(s, r.end) = Len(s) + 1
  THEN [ok |-> TRUE, val |-> r.val]
  ELSE JsonError

\* json.loads(s): one value between optional whitespace, and nothing after it.
json_loads(s) == loads_result(s, parse_value(s, skip_ws(s, 1)))

(* ------------------------------------------------------------------ *)
(* Heuristic repairer: repair_common_json_issues                       *)
(* ------------------------------------------------------------------ *)

\* The first index at or after k that holds no \s character.
RECURSIVE skip_space(_, _)
skip_space(s, k) == IF k <= Len(s) /\ IsSpace(s[k]) THEN skip_space(s, k + 1) ELSE k

\* The end (index after the closing quote) of [^"\\]*(?:\\.[^"\\]*)*" matched
\* from index k, 0 when it does not match: a backslash takes the next character
\* with it, unless that is a newline, which the dot does not match.
RECURSIVE quoted_end(_, _)
quoted_end(s, k) ==
  IF k > Len(s) THEN 0
  ELSE IF s[k] = DQ THEN k + 1
  ELSE IF s[k] = BS
  THEN IF k + 1 <= Len(s) /\ s[k + 1] # NL THEN quoted_end(s, k + 2) ELSE 0
  ELSE quoted_end(s, k + 1)

\* a\s*b matches at index k, for single characters a and b.
pair_at(s, k, a, b) ==
  /\ s[k] = a
  /\ skip_space(s, k + 1) <= Len(s)
  /\ s[skip_space(s, k + 1)] = b

\* re.sub(a\s*b, a+mid+b, s) from index k: each a whose next non-space
\* character is b is rewritten, left to right; the search resumes after b.
RECURSIVE sub_pair(_, _, _, _, _)
sub_pair(s, k, a, b, mid) ==
  LET ms == {m \in k..Len(s) : pair_at(s, m, a, b)}
      m == Least(ms)
  IN  IF ms = {} THEN Drop(s, k)
      ELSE SubSeq(s, k, m - 1) \o <<a>> \o mid \o <<b>>
             \o sub_pair(s, skip_space(s, m + 1) + 1, a, b, mid)

\* The end of \d+ matched at i0, 0 when there is no digit.
plain_digits_end(s, i0) ==
  IF i0 <= Len(s) /\ s[i0] \in Digits THEN digits_end(s, i0) ELSE 0

\* The end (index after) of the first group of the third rewrite matched at k:
\* true|false|null|-?\d+(?:\.\d+)?|\]|\}|"[^"\\]*(?:\\.[^"\\]*)*" ; 0 when none.
terminator_end(s, k) ==
  IF StartsWithAt(s, k, <<"t", "r", "u", "e">>) THEN k + 4
  ELSE IF StartsWithAt(s, k, <<"f", "a", "l", "s", "e">>) THEN k + 5
  ELSE IF StartsWithAt(s, k, <<"n", "u", "l", "l">>) THEN k + 4
  ELSE IF s[k] \in {RS, RB} THEN k + 1
  ELSE IF s[k] = DQ THEN quoted_end(s, k + 1)
  ELSE frac_end(s, plain_digits_end(s, IF s[k] = "-" THEN k + 1 ELSE k))

\* The third rewrite matches at index k: a value terminator, optional
\* whitespace, a quote.
missing_comma_at(s, k) ==
  /\ terminator_end(s, k) # 0
  /\ skip_space(s, terminator_end(s, k)) <= Len(s)
  /\ s[skip_space(s, terminator_end(s, k))] = DQ

\* re.sub of the third rewrite from index k: a comma goes between a value
\* terminator and the quote that follows it after optional whitespace; the
\* search resumes after that quote.
RECURSIVE sub_missing_comma(_, _)
sub_missing_comma(s, k) ==
  LET ms == {m \in k..Len(s) : missing_comma_at(s, m)}
      m == Least(ms)
      g == terminator_end(s, m)
  IN  IF ms = {} THEN Drop(s, k)
      ELSE SubSeq(s, k, g - 1) \o <<",", DQ>> \o sub_missing_comma(s, skip_space(s, g) + 1)

\* A trailing-comma match that knows the closing brace only.
trailing_comma_at_brace_only(s, k) ==
  /\ s[k] = ","
  /\ skip_space(s, k + 1) <= Len(s)
  /\ s[skip_space(s, k + 1)] = RB

\* ,\s*([}\]]) matches at index k.
trailing_comma_at(s, k) ==
  /\ s[k] = ","
  /\ skip_space(s, k + 1) <= Len(s)
  /\ s[skip_space(s, k + 1)] \in {RB, RS}

\* re.sub(r",\s*([}\]])", r"\1", s) from index k.
RECURSIVE sub_trailing_comma(_, _)
sub_trailing_comma(s, k) ==
  LET ms == {m \in k..Len(s) : trailing_comma_at(s, m)}
      m == Least(ms)
  IN  IF ms = {} THEN Drop(s, k)
      ELSE SubSeq(s, k, m - 1) \o <<s[skip_space(s, m + 1)]>>
             \o sub_trailing_comma(s, skip_space(s, m + 1) + 1)

\* A repairer without the first rewrite.
repair_without_brace_comma(text) ==
  sub_trailing_comma(sub_missing_comma(sub_pair(text, 1, RS, LS, <<",">>), 1), 1)

repair_common_json_issues(text) ==
  LET f1 == sub_pair(text, 1, RB, LB, <<",">>)
      f2 == sub_pair(f1, 1, RS, LS, <<",">>)
      f3 == sub_missing_comma(f2, 1)
  IN  sub_trailing_comma(f3, 1)

(* ------------------------------------------------------------------ *)
(* Pre-repair validation: validate_and_repair_json                     *)
(* ------------------------------------------------------------------ *)

\* The number of consecutive copies of grp that start at index k.
RECURSIVE copies_at(_, _, _)
copies_at(s, k, grp) ==
  IF grp # <<>> /\ StartsWithAt(s, k, grp) THEN 1 + copies_at(s, k + Len(grp), grp) ELSE 0

\* The length of the run of word characters that starts at index k.
RECURSIVE word_run(_, _)
word_run(s, k) == IF k <= Len(s) /\ IsWord(s[k]) THEN 1 + word_run(s, k + 1) ELSE 0

\* The match of (\w+)_\1{3,} at index k: the length g of the group (the longest
\* that matches, as the greedy \w+ backtracks) and the index after the match;
\* g = 0 when there is none.
repeated_match(s, k) ==
  LET ok(g) == /\ k + g <= Len(s)
               /\ s[k + g] = US
               /\ copies_at(s, k + g + 1, SubSeq(s, k, k + g - 1)) >= 3
      gs == {g \in 1..word_run(s, k) : ok(g)}
      g == CHOOSE x \in gs : \A y \in gs : y <= x
  IN  IF gs = {} THEN [g |-> 0, end |-> 0]
      ELSE [g |-> g,
            end |-> k + g + 1 + g * copies_at(s, k + g + 1, SubSeq(s, k, k + g - 1))]

\* re.sub(r'(\w+)_\1{3,}', r'\1', s) from index k.
RECURSIVE sub_repeated(_, _)
sub_repeated(s, k) ==
  LET ms == {m \in k..Len(s) : repeated_match(s, m).g # 0}
      m == Least(ms)
  IN  IF ms = {} THEN Drop(s, k)
      ELSE SubSeq(s, k, m + repeated_match(s, m).g - 1)
             \o sub_repeated(s, repeated_match(s, m).end)

\* The placeholders of lines 341-342 and what replaces them.
TablePlaceholder == <<"{", "t", "a", "b", "l", "e", "_", "n", "a", "m", "e", "}">>
ColumnPlaceholder == <<"{", "c", "o", "l", "u", "m", "n", "_", "n", "a", "m", "e", "}">>
UnknownTable == <<"\"", "u", "n", "k", "n", "o", "w", "n", "_", "t", "a", "b", "l", "e", "\"">>
UnknownColumn == <<"\"", "u", "n", "k", "n", "o", "w", "n", "_", "c", "o", "l", "u", "m", "n", "\"">>

\* A validation that never appends the missing closing braces.
validate_without_brace_balance(text) ==
  Replace(Replace(sub_repeated(text, 1), TablePlaceholder, UnknownTable),
          ColumnPlaceholder, UnknownColumn)

\* Lines 346-350: the closing braces that are missing are appended.
balance_braces(text) ==
  IF Count(text, LB) > Count(text, RB)
  THEN text \o Repeat(RB, Count(text, LB) - Count(text, RB))
  ELSE text

\* The text validate_and_repair_json returns for a non-empty text (it raises
\* ValueError on an empty one, which its caller catches, keeping the text).
validate_and_repair_json(text) ==
  balance_braces(Replace(Replace(sub_repeated(text, 1), TablePlaceholder, UnknownTable),
                         ColumnPlaceholder, UnknownColumn))

(* ------------------------------------------------------------------ *)
(* Response cleaner: the head of parse_model_json_response             *)
(* ------------------------------------------------------------------ *)
Fence == <<BQ, BQ, BQ>>
JsonFence == <<BQ, BQ, BQ, "j", "s", "o", "n">>
NoisePrefixes == {<<"N", "u", "m", "b", "e", "r", " ", "o", "f", " ", "t", "o", "k", "e", "n", "s">>,
                  <<"M", "o", "d", "e", "l", " ", "r", "e", "s", "p", "o", "n", "s", "e", ":">>,
                  <<"e", "x", "c", "e", "e", "d", "e", "d", " ", "m", "a", "x", "i", "m", "u", "m", " ", "c", "o", "n", "t", "e", "x", "t">>}

\* s.split(sep)[1]: what follows the first sep, up to the next one.
\* s.split(sep)[0]: what precedes the first sep.
BeforeFirst(s, sep) == IF Find(s, sep) = 0 THEN s ELSE SubSeq(s, 1, Find(s, sep) - 1)
AfterFirst(s, sep) == Drop(s, Find(s, sep) + Len(sep))
SplitSecond(s, sep) == BeforeFirst(AfterFirst(s, sep), sep)

\* str.splitlines() on the line ends of the model: \n, \r, \r\n and \f.
IsLineEnd(ch) == ch \in {"\n", "\r", "\f"}
RECURSIVE splitlines(_)
splitlines(s) ==
  LET ends == {k \in 1..Len(s) : IsLineEnd(s[k])}
      k == Least(ends)
      width == IF s[k] = "\r" /\ k < Len(s) /\ s[k + 1] = "\n" THEN 2 ELSE 1
  IN  IF s = <<>> THEN <<>>
      ELSE IF ends = {} THEN <<s>>
      ELSE <<SubSeq(s, 1, k - 1)>> \o splitlines(Drop(s, k + width))

\* "\n".join(lines).
RECURSIVE join_lines(_)
join_lines(lines) ==
  IF lines = <<>> THEN <<>>
  ELSE IF Len(lines) = 1 THEN lines[1]
  ELSE lines[1] \o <<NL>> \o join_lines(Tail(lines))

IsNoiseLine(ln) == \E p \in NoisePrefixes : StartsWithAt(Strip(ln), 1, p)

\* The double-encoded unwrap: a text that starts with a quote and holds \" is
\* replaced by its strict parse when that is a string.
unwrap_double_encoded(text) ==
  IF StartsWithAt(text, 1, <<DQ>>) /\ Contains(text, <<BS, DQ>>)
  THEN LET decoded == json_loads(text)
       IN  IF decoded.ok /\ decoded.val.t = "str" THEN decoded.val.s ELSE text
  ELSE text

\* The fence stripping.
strip_fences(text) ==
  IF Contains(text, JsonFence) THEN Strip(BeforeFirst(SplitSecond(text, JsonFence), Fence))
  ELSE IF Contains(text, Fence) THEN Strip(BeforeFirst(SplitSecond(text, Fence), Fence))
  ELSE text

\* A cleaner that keeps the whole text when a fence has no block after it.
clean_keep_unfenced(response_text) ==
  LET t3 == unwrap_double_encoded(Replace(Strip(response_text), <<BS, US>>, <<US>>))
  IN  IF strip_fences(t3) = <<>> THEN t3 ELSE strip_fences(t3)

\* The cleaning steps, in the order of the code.
clean(response_text) ==
  LET t1 == Strip(response_text)
      t2 == Replace(t1, <<BS, US>>, <<US>>)
      t3 == unwrap_double_encoded(t2)
      t4 == strip_fences(t3)
      t5 == Replace(t4, <<RB, NL, SP, SP, SP, SP, LB>>, <<RB, ",", NL, SP, SP, SP, SP, LB>>)
      t6 == Replace(t5, <<RS, NL, SP, SP, SP, RB>>, <<RS, NL, SP, SP, RB>>)
      response_lines == SelectSeq(splitlines(t6), LAMBDA ln : ~IsNoiseLine(ln))
  IN  Strip(join_lines(response_lines))

(* ------------------------------------------------------------------ *)
(* Decoder: parse_model_json_response                                  *)
(* ------------------------------------------------------------------ *)
\* The keys and the label of the last-resort structure (lines 412-415).
K_label == <<"l", "a", "b", "e", "l">>
K_columns == <<"c", "o", "l", "u", "m", "n", "s">>
K_suggested_relationships == <<"s", "u", "g", "g", "e", "s", "t", "e", "d", "_", "r", "e", "l", "a", "t", "i", "o", "n", "s", "h", "i", "p", "s">>
K_error == <<"e", "r", "r", "o", "r">>
ErrorTable == <<"e", "r", "r", "o", "r", "_", "t", "a", "b", "l", "e">>
\* The head of the last-resort error text; the parser's own message, which
\* follows it in the code, is not modelled.
FailedToParse == <<"F", "a", "i", "l", "e", "d", " ", "t", "o", " ", "p", "a", "r", "s", "e", " ", "J", "S", "O", "N">>

\* The minimal structure returned when the repaired candidate does not parse.
last_resort ==
  JObj(<<K_label, K_columns, K_suggested_relationships, K_error>>,
       <<JStr(ErrorTable), JArr(<<>>), JArr(<<>>), JStr(FailedToParse)>>)

\* Lines 386-390: the validation of the cleaned text, which is kept as it is
\* when validate_and_repair_json raises (on an empty text).
validated(text) == IF text = <<>> THEN text ELSE validate_and_repair_json(text)

\* The text handed to the scanner: cleaned, then validated.
pre_scan_text(response_text) == validated(clean(response_text))

\* The candidate that is parsed: the scanner's, or the first object of its
\* array when the unwrapper finds one.
choose_candidate(json_candidate) ==
  LET first_obj == extract_first_json_object_from_array(json_candidate)
  IN  IF first_obj.ok /\ first_obj.s # <<>> THEN first_obj.s ELSE json_candidate

\* What a call returns or raises.
Raised(e) == [kind |-> "raise", error |-> e, val |-> JNull]
Returned(v) == [kind |-> "value", error |-> "", val |-> v]

\* A retry without the inner try: the second parse's error propagates.
parse_repaired_unguarded(json_candidate) ==
  LET second == json_loads(repair_common_json_issues(json_candidate))
  IN  IF second.ok THEN Returned(second.val) ELSE Raised("JSONDecodeError")

\* A retry that parses the candidate again without repairing it.
parse_repaired_unrepaired(json_candidate) ==
  LET second == json_loads(json_candidate)
  IN  IF second.ok THEN Returned(second.val) ELSE Returned(last_resort)

\* The except branch: repair, strict parse, else the last-resort structure.
parse_repaired(json_candidate) ==
  LET second == json_loads(repair_common_json_issues(json_candidate))
  IN  IF second.ok THEN Returned(second.val) ELSE Returned(last_resort)

\* The try block: strict parse, else the except branch.
parse_candidate(json_candidate) ==
  LET first == json_loads(json_candidate)
  IN  IF first.ok THEN Returned(first.val) ELSE parse_repaired(json_candidate)

parse_model_json_response(response_text) ==
  LET json_candidate == extract_first_json_value(pre_scan_text(response_text))
  IN  IF ~json_candidate.ok \/ json_candidate.s = <<>>
      THEN Raised("JSONDecodeError")
      ELSE parse_candidate(choose_candidate(json_candidate.s))

(* ------------------------------------------------------------------ *)
(* Python's bool() and str() on decoded values                         *)
(* ------------------------------------------------------------------ *)

\* bool(v): a number is false when its mantissa is zero.
RECURSIVE zero_mantissa(_)
zero_mantissa(s) ==
  IF s = <<>> \/ s[1] \in {"e", "E"} THEN TRUE
  ELSE IF s[1] \in {"0", "-", "."} THEN zero_mantissa(Tail(s))
  ELSE FALSE

Truthy(v) ==
  CASE v.t = "null" -> FALSE
    [] v.t = "true" -> TRUE
    [] v.t = "false" -> FALSE
    [] v.t = "num" -> ~zero_mantissa(v.s)
    [] v.t = "str" -> v.s # <<>>
    [] v.t = "arr" -> v.items # <<>>
    [] OTHER -> v.keys # <<>>

\* a or b.
Or(a, b) == IF Truthy(a) THEN a ELSE b

JBool(b) == IF b THEN JTrue ELSE JFalse

\* repr() of a str: single quotes, unless it holds one and no double quote.
RECURSIVE repr_chars(_, _)
repr_chars(s, q) ==
  IF s = <<>> THEN <<>>
  ELSE (CASE s[1] = BS -> <<BS, BS>>
          [] s[1] = q -> <<BS, q>>
          [] s[1] = "\n" -> <<BS, "n">>
          [] s[1] = "\t" -> <<BS, "t">>
          [] s[1] = "\r" -> <<BS, "r">>
          [] s[1] = "\f" -> <<BS, "x", "0", "c">>
          [] s[1] = "BACKSPACE" -> <<BS, "x", "0", "8">>
          [] OTHER -> <<s[1]>>) \o repr_chars(Tail(s), q)

repr_str(s) ==
  LET q == IF Contains(s, <<"'">>) /\ ~Contains(s, <<DQ>>) THEN DQ ELSE "'"
  IN  <<q>> \o repr_chars(s, q) \o <<q>>

RECURSIVE PyRepr(_)
RECURSIVE repr_items(_)
RECURSIVE repr_pairs(_, _)
repr_items(items) ==
  IF items = <<>> THEN <<>>
  ELSE IF Len(items) = 1 THEN PyRepr(items[1])
  ELSE PyRepr(items[1]) \o <<",", " ">> \o repr_items(Tail(items))

repr_pairs(keys, items) ==
  IF keys = <<>> THEN <<>>
  ELSE repr_str(keys[1]) \o <<":", " ">> \o PyRepr(items[1])
       \o (IF Len(keys) = 1 THEN <<>> ELSE <<",", " ">> \o repr_pairs(Tail(keys), Tail(items)))

PyRepr(v) ==
  CASE v.t = "null" -> <<"N", "o", "n", "e">>
    [] v.t = "true" -> <<"T", "r", "u", "e">>
    [] v.t = "false" -> <<"F", "a", "l", "s", "e">>
    [] v.t = "num" -> v.s
    [] v.t = "str" -> repr_str(v.s)
    [] v.t = "arr" -> <<LS>> \o repr_items(v.items) \o <<RS>>
    [] OTHER -> <<LB>> \o repr_pairs(v.keys, v.items) \o <<RB>>

\* str(v).
PyStr(v) == IF v.t = "str" THEN v.s ELSE PyRepr(v)

\* str(n) for a natural number n.
RECURSIVE IntToStr(_)
DigitChar == <<"0", "1", "2", "3", "4", "5", "6", "7", "8", "9">>
IntToStr(n) == IF n < 10 THEN <<DigitChar[n + 1]>> ELSE IntToStr(n \div 10) \o <<DigitChar[(n % 10) + 1]>>

(* ------------------------------------------------------------------ *)
(* sanitize_identifier, normalize_column_type and the prompt and       *)
(* schema readers                                                      *)
(* ------------------------------------------------------------------ *)

\* re.sub(r"\s+", "_", s).
RECURSIVE sub_space_runs(_)
sub_space_runs(s) ==
  IF s = <<>> THEN <<>>
  ELSE IF IsSpace(s[1]) THEN <<US>> \o sub_space_runs(Drop(s, skip_space(s, 1)))
  ELSE <<s[1]>> \o sub_space_runs(Tail(s))

\* re.sub(r"[^a-z0-9_]", "_", s).
sub_non_identifier(s) ==
  [k \in 1..Len(s) |-> IF s[k] \in LowerLetters \cup Digits \cup {US} THEN s[k] ELSE US]

\* re.sub(r"_+", "_", s).
RECURSIVE collapse_underscores(_)
collapse_underscores(s) ==
  IF s = <<>> THEN <<>>
  ELSE IF s[1] = US /\ Len(s) >= 2 /\ s[2] = US THEN collapse_underscores(Tail(s))
  ELSE <<s[1]>> \o collapse_underscores(Tail(s))

\* s.strip("_").
RECURSIVE strip_underscores(_)
strip_underscores(s) ==
  IF s # <<>> /\ s[1] = US THEN strip_underscores(Tail(s))
  ELSE IF s # <<>> /\ s[Len(s)] = US THEN strip_underscores(SubSeq(s, 1, Len(s) - 1))
  ELSE s

Col == <<"c", "o", "l">>

\* A sanitizer that keeps runs of underscores.
sanitize_keep_runs(value) ==
  LET s == strip_underscores(sub_non_identifier(sub_space_runs(Lower(Strip(value)))))
  IN  IF s = <<>> THEN Col ELSE s

sanitize_identifier(value) ==
  LET s0 == Lower(Strip(value))
      s1 == sub_space_runs(s0)
      s2 == sub_non_identifier(s1)
      s3 == strip_underscores(collapse_underscores(s2))
  IN  IF s3 = <<>> THEN Col ELSE s3

Varchar255 == <<"v", "a", "r", "c", "h", "a", "r", "(", "2", "5", "5", ")">>
TypeMapping ==
  <<<<<<"i", "n", "t">>, <<"i", "n", "t">>>>,
     <<<<"i", "n", "t", "e", "g", "e", "r">>, <<"i", "n", "t">>>>,
     <<<<"b", "i", "g", "i", "n", "t">>, <<"b", "i", "g", "i", "n", "t">>>>,
     <<<<"s", "m", "a", "l", "l", "i", "n", "t">>, <<"s", "m", "a", "l", "l", "i", "n", "t">>>>,
     <<<<"u", "u", "i", "d">>, <<"u", "u", "i", "d">>>>,
     <<<<"t", "e", "x", "t">>, <<"t", "e", "x", "t">>>>,
     <<<<"s", "t", "r", "i", "n", "g">>, <<"v", "a", "r", "c", "h", "a", "r", "(", "2", "5", "5", ")">>>>,
     <<<<"v", "a", "r", "c", "h", "a", "r">>, <<"v", "a", "r", "c", "h", "a", "r", "(", "2", "5", "5", ")">>>>,
     <<<<"b", "o", "o", "l">>, <<"b", "o", "o", "l", "e", "a", "n">>>>,
     <<<<"b", "o", "o", "l", "e", "a", "n">>, <<"b", "o", "o", "l", "e", "a", "n">>>>,
     <<<<"d", "a", "t", "e", "t", "i", "m", "e">>, <<"t", "i", "m", "e", "s", "t", "a", "m", "p">>>>,
     <<<<"t", "i", "m", "e", "s", "t", "a", "m", "p">>, <<"t", "i", "m", "e", "s", "t", "a", "m", "p">>>>,
     <<<<"d", "a", "t", "e">>, <<"d", "a", "t", "e">>>>,
     <<<<"f", "l", "o", "a", "t">>, <<"f", "l", "o", "a", "t">>>>,
     <<<<"d", "o", "u", "b", "l", "e">>, <<"d", "o", "u", "b", "l", "e">>>>,
     <<<<"d", "e", "c", "i", "m", "a", "l">>, <<"d", "e", "c", "i", "m", "a", "l", "(", "1", "0", ",", "2", ")">>>>>>

normalize_column_type(raw_type) ==
  LET t == Strip(raw_type)
      tl == Lower(t)
  IN  IF t = <<>> THEN Varchar255
      ELSE IF \E k \in 1..Len(TypeMapping) : TypeMapping[k][1] = tl
      THEN TypeMapping[CHOOSE k \in 1..Len(TypeMapping) : TypeMapping[k][1] = tl][2]
      ELSE t

GeneratedTable == <<"g", "e", "n", "e", "r", "a", "t", "e", "d", "_", "t", "a", "b", "l", "e">>
TableWord == <<"t", "a", "b", "l", "e">>

IsIdentStart(ch) == ch \in LowerLetters \cup UpperLetters \cup {US}
IsIdentChar(ch) == IsIdentStart(ch) \/ ch \in Digits

\* The end (index after) of the run of identifier characters that starts at k.
RECURSIVE ident_end(_, _)
ident_end(s, k) == IF k <= Len(s) /\ IsIdentChar(s[k]) THEN ident_end(s, k + 1) ELSE k

\* ([a-zA-Z_][a-zA-Z0-9_]*)\s+table, ignoring case, matched at index k.
label_match_at(s, k) ==
  /\ k <= Len(s)
  /\ IsIdentStart(s[k])
  /\ LET e == ident_end(s, k)
         w == skip_space(s, e)
     IN  /\ w > e
         /\ StartsWithAt(Lower(s), w, TableWord)

infer_table_label_from_prompt(prompt) ==
  IF \E k \in 1..Len(prompt) : label_match_at(prompt, k)
  THEN LET k == CHOOSE x \in 1..Len(prompt) :
                  /\ label_match_at(prompt, x)
                  /\ \A y \in 1..(x - 1) : ~label_match_at(prompt, y)
       IN  Lower(Strip(SubSeq(prompt, k, ident_end(prompt, k) - 1)))
  ELSE GeneratedTable

\* The group of \s*Table\s+([^:]+): matched at the start of a line, ignoring
\* case; None when the line does not match.  The group runs to the first colon;
\* when only whitespace separates "Table" from the colon, the greedy \s+ gives
\* its last character back to the group.
schema_line_table(line) ==
  LET t0 == skip_space(line, 1)
      w0 == t0 + Len(TableWord)
      w1 == skip_space(line, w0)
      rest == Drop(line, w1)
      colon == Find(rest, <<":">>)
  IN  IF ~StartsWithAt(Lower(line), t0, TableWord) \/ w1 = w0 \/ colon = 0 THEN None
      ELSE IF colon > 1 THEN Some(SubSeq(rest, 1, colon - 1))
      ELSE IF w1 - w0 >= 2 THEN Some(<<line[w1 - 1]>>)
      ELSE None

RECURSIVE schema_names(_)
schema_names(lines) ==
  IF lines = <<>> THEN <<>>
  ELSE LET m == schema_line_table(lines[1])
       IN  (IF m.ok THEN <<sanitize_identifier(m.s)>> ELSE <<>>) \o schema_names(Tail(lines))

extract_schema_table_names(schema_summary) == schema_names(splitlines(schema_summary))

(* ------------------------------------------------------------------ *)
(* Schema normalizer: normalize_table_result                           *)
(* ------------------------------------------------------------------ *)
\* The keys of a column (lines 512-518, 526-527) and of a relationship
\* (lines 604-612), as text.
K_id == <<"i", "d">>
K_name == <<"n", "a", "m", "e">>
K_type == <<"t", "y", "p", "e">>
K_isPrimaryKey == <<"i", "s", "P", "r", "i", "m", "a", "r", "y", "K", "e", "y">>
K_isForeignKey == <<"i", "s", "F", "o", "r", "e", "i", "g", "n", "K", "e", "y">>
K_isNullable == <<"i", "s", "N", "u", "l", "l", "a", "b", "l", "e">>
K_referencedTable == <<"r", "e", "f", "e", "r", "e", "n", "c", "e", "d", "T", "a", "b", "l", "e">>
K_referencedColumn == <<"r", "e", "f", "e", "r", "e", "n", "c", "e", "d", "C", "o", "l", "u", "m", "n">>
K_from_table == <<"f", "r", "o", "m", "_", "t", "a", "b", "l", "e">>
K_from_column == <<"f", "r", "o", "m", "_", "c", "o", "l", "u", "m", "n">>
K_to_table == <<"t", "o", "_", "t", "a", "b", "l", "e">>
K_to_column == <<"t", "o", "_", "c", "o", "l", "u", "m", "n">>
K_relationship_type == <<"r", "e", "l", "a", "t", "i", "o", "n", "s", "h", "i", "p", "_", "t", "y", "p", "e">>
K_confidence == <<"c", "o", "n", "f", "i", "d", "e", "n", "c", "e">>
K_reason == <<"r", "e", "a", "s", "o", "n">>
\* The text literals of lines 488-636.
ColumnPrefix == <<"c", "o", "l", "u", "m", "n", "_">>
IdText == <<"i", "d">>
IdSuffix == <<"_", "i", "d">>
IdPk == <<"i", "d", "_", "p", "k">>
IdPkStem == <<"i", "d", "_", "p", "k", "_">>
CreatedAt == <<"c", "r", "e", "a", "t", "e", "d", "_", "a", "t">>
UpdatedAt == <<"u", "p", "d", "a", "t", "e", "d", "_", "a", "t">>
Uuid == <<"u", "u", "i", "d">>
Timestamp == <<"t", "i", "m", "e", "s", "t", "a", "m", "p">>
Medium == <<"m", "e", "d", "i", "u", "m">>
OneToMany == <<"o", "n", "e", "_", "t", "o", "_", "m", "a", "n", "y">>
InferredRelationship == <<"I", "n", "f", "e", "r", "r", "e", "d", " ", "r", "e", "l", "a", "t", "i", "o", "n", "s", "h", "i", "p">>
InferredFromPattern == <<"I", "n", "f", "e", "r", "r", "e", "d", " ", "f", "r", "o", "m", " ", "*", "_", "i", "d", " ", "c", "o", "l", "u", "m", "n", " ", "p", "a", "t", "t", "e", "r", "n", " ", "a", "n", "d", " ", "e", "x", "i", "s", "t", "i", "n", "g", " ", "s", "c", "h", "e", "m", "a">>
NoTimestamp == <<"n", "o", " ", "t", "i", "m", "e", "s", "t", "a", "m", "p">>
WithoutTimestamp == <<"w", "i", "t", "h", "o", "u", "t", " ", "t", "i", "m", "e", "s", "t", "a", "m", "p">>

\* s.endswith(p).
EndsWith(s, p) == Len(s) >= Len(p) /\ SubSeq(s, Len(s) - Len(p) + 1, Len(s)) = p

\* The de-duplication counters used_names and used_ids: text -> count.
EmptyCounter == [x \in {} |-> 0]
CountOf(used, key) == IF key \in DOMAIN used THEN used[key] ELSE 0
Bump(used, key) == (key :> (CountOf(used, key) + 1)) @@ used

\* name, or name_<count> once the counter of name has passed 1.
Suffixed(name, count) == IF count > 1 THEN name \o <<US>> \o IntToStr(count) ELSE name

\* A de-duplication that never appends the counter.
dedupe_never(used, key) == key

\* The identifier a column gets for the sanitized key, given the counters
\* before it.
dedupe(used, key) == Suffixed(key, CountOf(used, key) + 1)

\* The first of base, base+"s", base+"es" that is an existing table, as
\* Optional[str].
first_candidate(base, existing_tables) ==
  IF base \in existing_tables THEN Some(base)
  ELSE IF (base \o <<"s">>) \in existing_tables THEN Some(base \o <<"s">>)
  ELSE IF (base \o <<"e", "s">>) \in existing_tables THEN Some(base \o <<"e", "s">>)
  ELSE None

\* The three flags of a column named name.
IsPk(col) == Truthy(DictGet(col, K_isPrimaryKey, JFalse))
IsFk(col, name) ==
  Truthy(DictGet(col, K_isForeignKey, JBool(EndsWith(name, IdSuffix) /\ name # IdText)))
\* A nullable flag in which the supplied value wins for a primary key too.
IsNullable_explicit_wins(col, pk, fk) ==
  Truthy(DictGet(col, K_isNullable, JBool(~(pk \/ fk))))
IsNullable(col, pk, fk) ==
  IF pk THEN FALSE ELSE Truthy(DictGet(col, K_isNullable, JBool(~(pk \/ fk))))

\* The dict "normalized": the supplied column with its six fields replaced.
normalized_column(col, name, col_id, pk, fk) ==
  DictSet(DictSet(DictSet(DictSet(DictSet(DictSet(col,
    K_id, JStr(col_id)),
    K_name, JStr(name)),
    K_type, JStr(normalize_column_type(PyStr(DictGet(col, K_type, JStr(<<>>)))))),
    K_isPrimaryKey, JBool(pk)),
    K_isForeignKey, JBool(fk)),
    K_isNullable, JBool(IsNullable(col, pk, fk)))

\* The reference ref (Optional[str]) written into the column.
set_reference(normalized, ref) ==
  IF ref.ok
  THEN DictSet(DictSet(normalized, K_referencedTable, JStr(ref.s)),
               K_referencedColumn,
               Or(DictGet(normalized, K_referencedColumn, JNull), JStr(IdText)))
  ELSE normalized

\* The inference of the referenced table of a foreign key without one.
with_reference(normalized, fk, name, existing_tables) ==
  IF fk /\ ~Truthy(DictGet(normalized, K_referencedTable, JNull)) /\ existing_tables # {}
  THEN set_reference(normalized,
                     first_candidate(sanitize_identifier(SubSeq(name, 1, Len(name) - 3)),
                                     existing_tables))
  ELSE normalized

\* The body of the column loop for one dict column at 1-based position pos:
\* the normalized column, with the sanitized name and id that were counted.
\* The steps pass on the locals name_key (the sanitized name), name, id_key.
column_with_ids(col, name_key, name, id_key, used_ids, existing_tables) ==
  [col |-> with_reference(normalized_column(col, name, dedupe(used_ids, id_key),
                                            IsPk(col), IsFk(col, name)),
                          IsFk(col, name), name, existing_tables),
   name_key |-> name_key,
   id_key |-> id_key]

column_named(col, name_key, name, used_ids, existing_tables) ==
  column_with_ids(col, name_key, name,
                  sanitize_identifier(PyStr(Or(DictGet(col, K_id, JNull), JStr(name)))),
                  used_ids, existing_tables)

column_keyed(col, name_key, used_names, used_ids, existing_tables) ==
  column_named(col, name_key, dedupe(used_names, name_key), used_ids, existing_tables)

normalize_column(col, pos, used_names, used_ids, existing_tables) ==
  column_keyed(col,
               sanitize_identifier(PyStr(
                 Or(Or(DictGet(col, K_name, JNull), DictGet(col, K_id, JNull)),
                    JStr(ColumnPrefix \o IntToStr(pos))))),
               used_names, used_ids, existing_tables)

\* The column loop from position pos: entries that are not dicts are skipped.
RECURSIVE normalize_columns(_, _, _, _, _)

\* The rest of the loop once the column at pos gave r.
columns_after(cols, pos, used_names, used_ids, existing_tables, r) ==
  <<r.col>> \o normalize_columns(cols, pos + 1, Bump(used_names, r.name_key),
                                 Bump(used_ids, r.id_key), existing_tables)

normalize_columns(cols, pos, used_names, used_ids, existing_tables) ==
  IF pos > Len(cols) THEN <<>>
  ELSE IF cols[pos].t # "obj"
  THEN normalize_columns(cols, pos + 1, used_names, used_ids, existing_tables)
  ELSE columns_after(cols, pos, used_names, used_ids, existing_tables,
                     normalize_column(cols[pos], pos, used_names, used_ids, existing_tables))

\* {c.get(key) for c in cols}, for the keys "name" and "id", which every
\* normalized column holds as a string.
FieldSet(cols, key) == {DictGet(cols[k], key, JNull).s : k \in 1..Len(cols)}

\* while cur in existing: cur = stem + str(suffix); suffix += 1.
RECURSIVE first_free(_, _, _, _)
first_free(cur, stem, suffix, existing) ==
  IF cur \in existing THEN first_free(stem \o IntToStr(suffix), stem, suffix + 1, existing)
  ELSE cur

PlainColumn(col_id, name, type, is_pk) ==
  JObj(<<K_id, K_name, K_type, K_isPrimaryKey, K_isForeignKey, K_isNullable>>,
       <<JStr(col_id), JStr(name), JStr(type), JBool(is_pk), JFalse, JFalse>>)

HasPrimaryKey(cols) ==
  \E k \in 1..Len(cols) : Truthy(DictGet(cols[k], K_isPrimaryKey, JNull))

\* A primary-key guarantee that never inserts a column.
ensure_primary_key_never(cols) == cols

\* The primary-key guarantee: a uuid column goes first when none is marked.
ensure_primary_key(cols) ==
  LET existing_names == FieldSet(cols, K_name)
      existing_ids == FieldSet(cols, K_id)
      pk_name == first_free(IF IdText \notin existing_names THEN IdText ELSE IdPk,
                            IdPkStem, 2, existing_names)
      pk_id == first_free(IF IdText \notin existing_ids THEN IdText ELSE IdPk,
                          IdPkStem, 2, existing_ids)
  IN  IF HasPrimaryKey(cols) THEN cols
      ELSE <<PlainColumn(pk_id, pk_name, Uuid, TRUE)>> \o cols

\* One timestamp column, appended when its name is not taken.
add_timestamp(cols, ts_name) ==
  IF ts_name \in FieldSet(cols, K_name) THEN cols
  ELSE Append(cols, PlainColumn(first_free(ts_name, ts_name \o <<US>>, 2, FieldSet(cols, K_id)),
                                ts_name, Timestamp, FALSE))

\* The timestamp injection, unless the prompt opts out.
add_timestamps(cols, prompt) ==
  LET p == Lower(prompt)
  IN  IF Contains(p, NoTimestamp) \/ Contains(p, WithoutTimestamp) THEN cols
      ELSE add_timestamp(add_timestamp(cols, CreatedAt), UpdatedAt)

\* The 5-tuple key of a supplied relationship.
suggestion_key(s) ==
  <<sanitize_identifier(PyStr(DictGet(s, K_from_table, JNull))),
    sanitize_identifier(PyStr(DictGet(s, K_from_column, JNull))),
    sanitize_identifier(PyStr(DictGet(s, K_to_table, JNull))),
    sanitize_identifier(PyStr(DictGet(s, K_to_column, JNull))),
    Lower(PyStr(DictGet(s, K_relationship_type, JNull)))>>

Suggestion(k, confidence, reason) ==
  JObj(<<K_from_table, K_from_column, K_to_table, K_to_column, K_relationship_type,
         K_confidence, K_reason>>,
       <<JStr(k[1]), JStr(k[2]), JStr(k[3]), JStr(k[4]), JStr(k[5]),
         JStr(confidence), JStr(reason)>>)

Usable(s) ==
  /\ s.t = "obj"
  /\ \A key \in {K_from_table, K_from_column, K_to_table, K_to_column, K_relationship_type} :
       Truthy(DictGet(s, key, JNull))

\* The loop over the supplied relationships from position pos.
RECURSIVE normalize_suggestions(_, _, _)

\* A loop body that never looks the key up in key_set.
supplied_suggestion_unchecked(suggestions, pos, key_set, s, k) ==
  IF ~Usable(s)
  THEN normalize_suggestions(suggestions, pos + 1, key_set)
  ELSE <<Suggestion(k,
                    IF Truthy(DictGet(s, K_confidence, JNull))
                    THEN Lower(PyStr(DictGet(s, K_confidence, JNull))) ELSE Medium,
                    IF Truthy(DictGet(s, K_reason, JNull))
                    THEN PyStr(DictGet(s, K_reason, JNull)) ELSE InferredRelationship)>>
       \o normalize_suggestions(suggestions, pos + 1, key_set \cup {k})

\* The loop's body for the relationship s with key k.
supplied_suggestion(suggestions, pos, key_set, s, k) ==
  IF ~Usable(s) \/ k \in key_set
  THEN normalize_suggestions(suggestions, pos + 1, key_set)
  ELSE <<Suggestion(k,
                    IF Truthy(DictGet(s, K_confidence, JNull))
                    THEN Lower(PyStr(DictGet(s, K_confidence, JNull))) ELSE Medium,
                    IF Truthy(DictGet(s, K_reason, JNull))
                    THEN PyStr(DictGet(s, K_reason, JNull)) ELSE InferredRelationship)>>
       \o normalize_suggestions(suggestions, pos + 1, key_set \cup {k})

normalize_suggestions(suggestions, pos, key_set) ==
  IF pos > Len(suggestions) THEN <<>>
  ELSE supplied_suggestion(suggestions, pos, key_set, suggestions[pos],
                           suggestion_key(suggestions[pos]))

\* The key of the relationship inferred for a foreign-key column.
inferred_key(col, table_label) ==
  <<table_label,
    sanitize_identifier(PyStr(Or(Or(DictGet(col, K_name, JNull),
                                    DictGet(col, K_id, JNull)), JStr(<<>>)))),
    sanitize_identifier(PyStr(DictGet(col, K_referencedTable, JNull))),
    sanitize_identifier(PyStr(Or(DictGet(col, K_referencedColumn, JNull), JStr(IdText)))),
    OneToMany>>

\* The loop that synthesizes a relationship per resolved foreign-key column.
RECURSIVE synthesize_suggestions(_, _, _, _)

\* The loop's body for the column col with key k.
inferred_suggestion(cols, pos, table_label, key_set, col, k) ==
  IF ~Truthy(DictGet(col, K_isForeignKey, JNull))
     \/ ~Truthy(DictGet(col, K_referencedTable, JNull))
     \/ k \in key_set
  THEN synthesize_suggestions(cols, pos + 1, table_label, key_set)
  ELSE <<Suggestion(k, Medium, InferredFromPattern)>>
       \o synthesize_suggestions(cols, pos + 1, table_label, key_set \cup {k})

synthesize_suggestions(cols, pos, table_label, key_set) ==
  IF pos > Len(cols) THEN <<>>
  ELSE inferred_suggestion(cols, pos, table_label, key_set, cols[pos],
                           inferred_key(cols[pos], table_label))

\* The label: the supplied one sanitized, or the one inferred from the prompt.
resolve_label(result, prompt) ==
  LET table_label == DictGet(result, K_label, JNull)
  IN  IF Truthy(table_label) THEN sanitize_identifier(PyStr(table_label))
      ELSE infer_table_label_from_prompt(prompt)

\* The dict that is normalized: the first element of a list, {} for anything
\* that is not a dict.
as_dict(result) ==
  LET r == IF result.t = "arr"
           THEN (IF result.items # <<>> THEN result.items[1] ELSE JEmptyObj)
           ELSE result
  IN  IF r.t = "obj" THEN r ELSE JEmptyObj

\* result.get(key) when it is a list, else [].
ListOf(result, key) ==
  IF DictGet(result, key, JNull).t = "arr" THEN DictGet(result, key, JNull).items ELSE <<>>

\* set(names).
ToSet(names) == {names[k] : k \in 1..Len(names)}

\* The supplied relationships when any is usable, else the synthesized ones.
relationships(from_supplied, normalized_cols, table_label) ==
  IF from_supplied # <<>> THEN from_supplied
  ELSE synthesize_suggestions(normalized_cols, 1, sanitize_identifier(table_label), {})

\* Lines 575-640: the columns are stored, then the relationships.
with_columns(result, normalized_cols, table_label) ==
  DictSet(DictSet(result, K_columns, JArr(normalized_cols)),
          K_suggested_relationships,
          JArr(relationships(normalize_suggestions(
                               ListOf(result, K_suggested_relationships), 1, {}),
                             normalized_cols, table_label)))

\* Lines 476-573: the column list of the labelled dict.
labelled(result, table_label, prompt, current_schema) ==
  with_columns(result,
               add_timestamps(
                 ensure_primary_key(
                   normalize_columns(ListOf(result, K_columns), 1, EmptyCounter,
                                     EmptyCounter,
                                     ToSet(extract_schema_table_names(current_schema)))),
                 prompt),
               table_label)

\* Line 474: the label is stored.
with_label(result, table_label, prompt, current_schema) ==
  labelled(DictSet(result, K_label, JStr(table_label)), table_label, prompt,
           current_schema)

normalize_table_result(result, prompt, current_schema) ==
  with_label(as_dict(result), resolve_label(as_dict(result), prompt), prompt,
             current_schema)

(* ------------------------------------------------------------------ *)
(* create_table_ai: the fallback response                              *)
(* ------------------------------------------------------------------ *)
\* The keys and the messages of lines 394, 717, 731-733 and 743-746; ModelFailure
\* stands for the message of whatever the model call raised.
K_metadata == <<"m", "e", "t", "a", "d", "a", "t", "a">>
K_raw_response_preview == <<"r", "a", "w", "_", "r", "e", "s", "p", "o", "n", "s", "e", "_", "p", "r", "e", "v", "i", "e", "w">>
InvalidAfterAttempts == <<"A", "I", " ", "o", "u", "t", "p", "u", "t", " ", "i", "n", "v", "a", "l", "i", "d", " ", "J", "S", "O", "N", " ", "a", "f", "t", "e", "r", " ", "2", " ", "a", "t", "t", "e", "m", "p", "t", "s", ".", " ", "L", "a", "s", "t", " ", "e", "r", "r", "o", "r", ":", " ">>
ContextLimitNote == <<" ", "C", "o", "n", "t", "e", "x", "t", " ", "l", "i", "m", "i", "t", " ", "m", "a", "y", " ", "h", "a", "v", "e", " ", "b", "e", "e", "n", " ", "e", "x", "c", "e", "e", "d", "e", "d">>
NoJsonObjectFound == <<"N", "o", " ", "J", "S", "O", "N", " ", "o", "b", "j", "e", "c", "t", " ", "f", "o", "u", "n", "d", ":", " ", "l", "i", "n", "e", " ", "1", " ", "c", "o", "l", "u", "m", "n", " ", "1", " ", "(", "c", "h", "a", "r", " ", "0", ")">>
ExpectedDict == <<"E", "x", "p", "e", "c", "t", "e", "d", " ", "d", "i", "c", "t", ",", " ", "g", "o", "t", " ", "<", "c", "l", "a", "s", "s", " ", "'", "l", "i", "s", "t", "'", ">">>
ModelFailure == <<"m", "o", "d", "e", "l", " ", "f", "a", "i", "l", "u", "r", "e">>
PreviewLen == 200

\* str(last_error): the message of the exception caught last.
error_text(last_error) ==
  CASE last_error = "JSONDecodeError" -> NoJsonObjectFound
    [] last_error = "ValueError" -> ExpectedDict
    [] last_error = "RuntimeError" -> ModelFailure
    [] OTHER -> <<"N", "o", "n", "e">>

\* Lines 729-748: the response once both attempts have failed. over_limit is
\* the outcome of the context-length test of line 732; the two token figures
\* of the metadata are not modelled.
fallback_result(prompt, last_error, last_raw, over_limit) ==
  JObj(<<K_label, K_columns, K_suggested_relationships, K_error, K_metadata>>,
       <<JStr(infer_table_label_from_prompt(prompt)),
         JArr(<<PlainColumn(IdText, IdText, Uuid, TRUE)>>),
         JArr(<<>>),
         JStr(InvalidAfterAttempts \o error_text(last_error)
                \o (IF over_limit THEN ContextLimitNote ELSE <<>>)),
         JObj(<<K_raw_response_preview>>,
              <<IF last_raw # <<>>
                THEN JStr(SubSeq(last_raw, 1, IF Len(last_raw) < PreviewLen
                                              THEN Len(last_raw) ELSE PreviewLen))
                ELSE JNull>>)>>)

\* A loop without the except clause: the exception leaves the handler.
after_exception_uncaught(idx) == "raised"

\* A loop of a single attempt: any caught exception leads to the fallback.
after_exception_no_retry(idx) == "fallback"

\* Where the loop goes after an attempt's exception was caught.
after_exception(idx) == IF idx = 1 THEN "attempt" ELSE "fallback"

(* ------------------------------------------------------------------ *)
(* State                                                               *)
(* ------------------------------------------------------------------ *)
VARIABLES
  pc,              \* the control location of the handler or function under way
  text,            \* the scanner's input; in the decoder, its working text
  start,           \* extract_first_json_value: the start index (0: not set)
  i,               \* extract_first_json_value: the loop index
  stack,           \* extract_first_json_value: the open brackets
  in_string,       \* extract_first_json_value: inside a string
  escape,          \* extract_first_json_value: escape pending
  json_candidate,  \* the scanner's result (Optional[str])
  first_obj,       \* the unwrapper's result (Optional[str])
  decoded,         \* what parse_model_json_response returned or raised
  repairs,         \* calls of repair_common_json_issues in the current decode
  attempt_idx,     \* create_table_ai: the attempt under way
  response_text,   \* create_table_ai: the model's output of this attempt
  last_raw,        \* create_table_ai: the last model output received
  last_error,      \* create_table_ai: the last exception caught
  generations,     \* calls of generate_with_fallback so far
  prompt,          \* request.prompt
  current_schema,  \* request.current_schema
  value,           \* normalize_table_result: its first argument
  result,          \* the handler's response; the normalizer's return value
  result2          \* the normalizer applied to its own return value

scan_vars == <<start, i, stack, in_string, escape>>
decode_vars == <<text, json_candidate, first_obj, decoded, repairs>>
handler_vars == <<attempt_idx, response_text, last_raw, last_error, generations>>
request_vars == <<prompt, current_schema>>
norm_vars == <<value, result, result2>>
vars == <<pc, scan_vars, decode_vars, handler_vars, request_vars, norm_vars>>

\* No call made yet.
Pending == [kind |-> "pending", error |-> "", val |-> JNull]

(* ------------------------------------------------------------------ *)
(* Bounds and input sets                                               *)
(* ------------------------------------------------------------------ *)
\* The longest text of the scanner's exhaustive inputs.
MaxTextLen == 4
\* The most fragments a generated model output is put together from.
MaxPieces == 2
\* The most columns of an enumerated table.
MaxCols == 3
\* The most columns of a table enumerated with a label or relationships.
MaxShapedCols == 1

ScanAlphabet == {LB, RB, LS, RS, DQ, BS, ",", "a"}

\* Every text over the alphabet of at most n characters.
TextsUpTo(alphabet, n) == UNION {[1..m -> alphabet] : m \in 0..n}

\* Longer texts the scanner and the unwrapper are run on.
ScanExamples ==
  {<<"[", "\"", "{", "}", "\"", "]">>,
   <<"[", "[", "]", ",", "{", "}", "]">>,
   <<"[", "{", "\"", "a", "\"", ":", "1", "}", "]">>,
   <<"{", "\"", "\\", "\"", "}">>,
   <<"{", "\"", "a", "\"", ":", "\"", "}", "\"", "}">>,
   <<"x", " ", "{", "\"", "a", "\"", ":", "[", "1", "]", "}", " ", "y">>,
   <<"\"", "{", "}", "\"", " ", "{", "}">>,
   <<"[", "1", ",", "{", "\"", "a", "\"", ":", "1", "}", "]">>,
   <<"{", "\"", "a", "\\", "\\", "\"", "}">>,
   <<"{", "\"", "]", "\"", "]">>,
   <<"x", "[", "{", "\"", "a", "\\", "\"", "}", "\"", "}">>}

ScanTexts == TextsUpTo(ScanAlphabet, MaxTextLen) \cup ScanExamples

\* The fragments of generated model outputs.
Pieces ==
  {<<"{", "\"", "a", "\"", ":", "1", "}">>,
   <<"{">>,
   <<"}">>,
   <<"[">>,
   <<"]">>,
   <<"\"", "a", "\"">>,
   <<",">>,
   <<BQ, BQ, BQ>>,
   <<"x", "_", "x", "x", "x">>,
   <<"\n", "M", "o", "d", "e", "l", " ", "r", "e", "s", "p", "o", "n", "s", "e", ":">>}

RECURSIVE Flatten(_)
Flatten(parts) == IF parts = <<>> THEN <<>> ELSE parts[1] \o Flatten(Tail(parts))

\* Model outputs of the specification's scenarios and of the repair cases.
RawExamples ==
  {<<"n", "o", "t", " ", "j", "s", "o", "n", " ", "a", "t", " ", "a", "l", "l">>,
   <<"{", "\"", "a", "\"", ":", "[", "1", ",">>,
   <<"{", "\"", "a", "\"", ":", "1", "}", "{", "\"", "b", "\"", ":", "2", "}">>,
   <<"[", "{", "\"", "l", "a", "b", "e", "l", "\"", ":", "\"", "t", "a", "g", "s", "\"", ",", "\"", "c", "o", "l", "u", "m", "n", "s", "\"", ":", "[", "]", "}", "]">>,
   <<"H", "e", "r", "e", " ", "i", "s", " ", "t", "h", "e", " ", "t", "a", "b", "l", "e", ":", " ", "{", "\"", "l", "a", "b", "e", "l", "\"", ":", "\"", "O", "r", "d", "e", "r", "\"", ",", "\"", "c", "o", "l", "u", "m", "n", "s", "\"", ":", "[", "{", "\"", "n", "a", "m", "e", "\"", ":", "\"", "u", "s", "e", "r", "_", "i", "d", "\"", "}", "]", "}">>,
   <<"{", "\"", "a", "\"", ":", "1", " ", "\"", "b", "\"", ":", "2", "}">>,
   <<"{", "\"", "a", "\"", ":", "1", ",", "}">>,
   <<BQ, BQ, BQ, "j", "s", "o", "n", "\n", "{", "\"", "a", "\"", ":", "1", "}", "\n", BQ, BQ, BQ>>,
   <<"{", "\"", "a", "\"", " ", "\"", "b", "\"", "}">>,
   <<"\"", "{", "\\", "\"", "a", "\\", "\"", ":", "1", "}", "\"">>,
   <<"{", "\"", "a", "\"", ":", "1", "}", "\n", "M", "o", "d", "e", "l", " ", "r", "e", "s", "p", "o", "n", "s", "e", ":", " ", "d", "o", "n", "e">>}

RawOutputs == {Flatten(ps) : ps \in TextsUpTo(Pieces, MaxPieces)} \cup RawExamples

HandlerPrompts == {<<"o", "r", "d", "e", "r", "s", " ", "t", "a", "b", "l", "e">>, <<"n", "o", " ", "t", "i", "m", "e", "s", "t", "a", "m", "p">>}
HandlerSchema == <<"T", "a", "b", "l", "e", " ", "u", "s", "e", "r", "s", ":", "\n", " ", " ", "i", "d">>

(* ------------------------------------------------------------------ *)
(* The scanner, one loop iteration per step, then the unwrapper        *)
(* ------------------------------------------------------------------ *)
IdleDecode ==
  /\ decoded = Pending /\ repairs = 0
IdleHandler ==
  /\ attempt_idx = 0 /\ response_text = <<>> /\ last_raw = <<>> /\ last_error = "none"
  /\ generations = 0
IdleRequest == prompt = <<>> /\ current_schema = <<>>
IdleNorm == value = JNull /\ result = JNull /\ result2 = JNull
IdleScan ==
  /\ start = 0 /\ i = 0 /\ stack = <<>> /\ in_string = FALSE /\ escape = FALSE

ScanInit ==
  /\ text \in ScanTexts
  /\ pc = "scan_begin"
  /\ IdleScan
  /\ json_candidate = None /\ first_obj = None
  /\ IdleDecode /\ IdleHandler /\ IdleRequest /\ IdleNorm

\* Lines 240-252: the early returns and the loop's initial state.
ScanBegin ==
  /\ pc = "scan_begin"
  /\ start' = scan_start(text)
  /\ i' = scan_start(text)
  /\ pc' = IF text = <<>> \/ scan_start(text) = 0 THEN "scan_none" ELSE "scan_loop"
  /\ UNCHANGED <<text, stack, in_string, escape, json_candidate, first_obj, decoded,
                 repairs, handler_vars, request_vars, norm_vars>>

\* Lines 254-285: one iteration of the loop, on text[i].
ScanChar ==
  /\ pc = "scan_loop"
  /\ i <= Len(text)
  /\ LET nx == scan_step([stack |-> stack, in_string |-> in_string,
                          escape |-> escape, status |-> "run"], text[i])
     IN  /\ stack' = nx.stack
         /\ in_string' = nx.in_string
         /\ escape' = nx.escape
         /\ i' = IF nx.status = "run" THEN i + 1 ELSE i
         /\ pc' = CASE nx.status = "found" -> "scan_found"
                    [] nx.status = "none" -> "scan_none"
                    [] OTHER -> "scan_loop"
         /\ json_candidate' = IF nx.status = "found" THEN Some(SubSeq(text, start, i))
                              ELSE json_candidate
  /\ UNCHANGED <<text, start, first_obj, decoded, repairs, handler_vars, request_vars,
                 norm_vars>>

\* Line 287: the loop ran off the end of the text.
ScanExhausted ==
  /\ pc = "scan_loop"
  /\ i > Len(text)
  /\ pc' = "scan_none"
  /\ UNCHANGED <<text, scan_vars, json_candidate, first_obj, decoded, repairs,
                 handler_vars, request_vars, norm_vars>>

\* Lines 396-398 on the scanner's candidate: the unwrapper's result.
UnwrapCandidate ==
  /\ pc = "scan_found"
  /\ first_obj' = extract_first_json_object_from_array(json_candidate.s)
  /\ pc' = "unwrapped"
  /\ UNCHANGED <<text, scan_vars, json_candidate, decoded, repairs, handler_vars,
                 request_vars, norm_vars>>

ScanNext == ScanBegin \/ ScanChar \/ ScanExhausted \/ UnwrapCandidate

SpecScan == ScanInit /\ [][ScanNext]_vars

(* ------------------------------------------------------------------ *)
(* create_table_ai with a loaded model: two attempts, then the fallback *)
(* ------------------------------------------------------------------ *)
Init ==
  /\ pc = "attempt"
  /\ attempt_idx = 1
  /\ prompt \in HandlerPrompts
  /\ current_schema = HandlerSchema
  /\ response_text = <<>> /\ last_raw = <<>> /\ last_error = "none"
  /\ generations = 0
  /\ text = <<>> /\ json_candidate = None /\ first_obj = None
  /\ IdleDecode /\ IdleScan /\ IdleNorm

\* Lines 725-727: the except clause, to the next attempt or out of the loop.
Caught(e) ==
  /\ last_error' = e
  /\ pc' = after_exception(attempt_idx)
  /\ attempt_idx' = IF attempt_idx = 1 THEN 2 ELSE attempt_idx

\* Lines 709-710: the model answers.
Generate ==
  /\ pc = "attempt"
  /\ \E raw \in RawOutputs : response_text' = raw /\ last_raw' = raw
  /\ generations' = generations + 1
  /\ pc' = "clean"
  /\ text' = <<>> /\ json_candidate' = None /\ first_obj' = None
  /\ decoded' = Pending /\ repairs' = 0
  /\ UNCHANGED <<attempt_idx, last_error, scan_vars, request_vars, norm_vars>>

\* Line 709: the model call raises.
GenerateRaises ==
  /\ pc = "attempt"
  /\ generations' = generations + 1
  /\ Caught("RuntimeError")
  /\ text' = <<>> /\ json_candidate' = None /\ first_obj' = None
  /\ decoded' = Pending /\ repairs' = 0
  /\ UNCHANGED <<response_text, last_raw, scan_vars, request_vars, norm_vars>>

\* Lines 356-390: cleaning and the validation before the scan.
CleanAndValidate ==
  /\ pc = "clean"
  /\ text' = pre_scan_text(response_text)
  /\ pc' = "scan"
  /\ UNCHANGED <<json_candidate, first_obj, decoded, repairs, scan_vars,
                 handler_vars, request_vars, norm_vars>>

\* Lines 392-394: the scan; no candidate raises JSONDecodeError to the handler.
Scan ==
  /\ pc = "scan"
  /\ LET found == extract_first_json_value(text)
     IN  /\ json_candidate' = IF found.ok /\ found.s # <<>> THEN found ELSE None
         /\ IF found.ok /\ found.s # <<>>
            THEN /\ pc' = "unwrap"
                 /\ UNCHANGED <<decoded, attempt_idx, last_error>>
            ELSE /\ decoded' = Raised("JSONDecodeError")
                 /\ Caught("JSONDecodeError")
  /\ UNCHANGED <<text, first_obj, repairs, scan_vars, response_text, last_raw,
                 generations, request_vars, norm_vars>>

\* Lines 396-398: the unwrapper's object replaces an array candidate.
Unwrap ==
  /\ pc = "unwrap"
  /\ first_obj' = extract_first_json_object_from_array(json_candidate.s)
  /\ json_candidate' = Some(choose_candidate(json_candidate.s))
  /\ pc' = "loads"
  /\ UNCHANGED <<text, decoded, repairs, scan_vars, handler_vars, request_vars,
                 norm_vars>>

\* Lines 401-402: the strict parse of the candidate.
StrictParse ==
  /\ pc = "loads"
  /\ IF json_loads(json_candidate.s).ok
     THEN decoded' = Returned(json_loads(json_candidate.s).val) /\ pc' = "check"
     ELSE decoded' = decoded /\ pc' = "repair"
  /\ UNCHANGED <<text, json_candidate, first_obj, repairs, scan_vars,
                 handler_vars, request_vars, norm_vars>>

\* Lines 403-416: one repair and the second parse. An error of the second
\* parse would reach the handler's except clause.
RepairAndParse ==
  /\ pc = "repair"
  /\ repairs' = repairs + 1
  /\ decoded' = parse_repaired(json_candidate.s)
  /\ IF decoded'.kind = "value"
     THEN pc' = "check" /\ UNCHANGED <<attempt_idx, last_error>>
     ELSE Caught(decoded'.error)
  /\ UNCHANGED <<text, json_candidate, first_obj, scan_vars, response_text,
                 last_raw, generations, request_vars, norm_vars>>

\* Lines 715-717: a decoded value that is not a dict raises ValueError.
CheckDict ==
  /\ pc = "check"
  /\ IF decoded.val.t = "obj"
     THEN pc' = "normalize" /\ UNCHANGED <<attempt_idx, last_error>>
     ELSE Caught("ValueError")
  /\ UNCHANGED <<decode_vars, scan_vars, response_text, last_raw, generations,
                 request_vars, norm_vars>>

\* Lines 719-723: normalization and the successful return.
Normalize ==
  /\ pc = "normalize"
  /\ value' = decoded.val
  /\ result' = normalize_table_result(decoded.val, prompt, current_schema)
  /\ pc' = "done"
  /\ UNCHANGED <<result2, decode_vars, scan_vars, handler_vars, request_vars>>

\* Lines 729-748: both attempts failed.
Fallback ==
  /\ pc = "fallback"
  /\ \E over_limit \in BOOLEAN :
       result' = fallback_result(prompt, last_error, last_raw, over_limit)
  /\ pc' = "done"
  /\ UNCHANGED <<value, result2, decode_vars, scan_vars, handler_vars, request_vars>>

Next ==
  \/ Generate
  \/ GenerateRaises
  \/ CleanAndValidate
  \/ Scan
  \/ Unwrap
  \/ StrictParse
  \/ RepairAndParse
  \/ CheckDict
  \/ Normalize
  \/ Fallback

Spec == Init /\ [][Next]_vars

(* ------------------------------------------------------------------ *)
(* normalize_table_result, applied to a decoded value and to its result *)
(* ------------------------------------------------------------------ *)
\* A supplied column with a name alone.
NamedColumn(name) == JObj(<<K_name>>, <<JStr(name)>>)
\* A supplied column marked as primary key.
KeyColumn(name) == JObj(<<K_name, K_isPrimaryKey>>, <<JStr(name), JTrue>>)

\* A supplied primary-key column that says it is nullable.
NullableKeyColumn(name) ==
  JObj(<<K_name, K_isPrimaryKey, K_isNullable>>, <<JStr(name), JTrue, JTrue>>)
\* A supplied column flagged as foreign key, without a referenced table.
ForeignColumn(name) == JObj(<<K_name, K_isForeignKey>>, <<JStr(name), JTrue>>)
\* A supplied foreign-key column that names its referenced table.
ReferringColumn(name, table) ==
  JObj(<<K_name, K_isForeignKey, K_referencedTable>>, <<JStr(name), JTrue, JStr(table)>>)

\* The entries the supplied column lists are built from.
ColumnChoices ==
  {NamedColumn(<<"a">>),
   NamedColumn(<<"a", "_", "2">>),
   NamedColumn(<<"u", "s", "e", "r", "_", "i", "d">>),
   KeyColumn(<<"i", "d">>),
   KeyColumn(<<"U", "s", "e", "r", " ", "N", "a", "m", "e">>),
   JStr(<<"x">>),
   NullableKeyColumn(<<"c", "o", "d", "e">>),
   ForeignColumn(<<"o", "w", "n", "e", "r">>),
   ReferringColumn(<<"a">>, <<"U", "s", "e", "r", "s">>),
   ReferringColumn(<<"a", "_", "2">>, <<"U", "s", "e", "r", "s">>)}

\* One supplied relationship.
SuppliedRelationship ==
  JObj(<<K_from_table, K_from_column, K_to_table, K_to_column, K_relationship_type>>,
       <<JStr(<<"O", "r", "d", "e", "r", "s">>), JStr(<<"u", "s", "e", "r", "_", "i", "d">>), JStr(<<"u", "s", "e", "r", "s">>), JStr(<<"i", "d">>),
         JStr(<<"M", "a", "n", "y", "_", "T", "o", "_", "O", "n", "e">>)>>)

\* The same relationship, written in another case and with a confidence.
RepeatedRelationship ==
  JObj(<<K_from_table, K_from_column, K_to_table, K_to_column, K_relationship_type,
         K_confidence>>,
       <<JStr(<<"o", "r", "d", "e", "r", "s">>), JStr(<<"U", "s", "e", "r", "_", "I", "d">>), JStr(<<"u", "s", "e", "r", "s">>), JStr(<<"i", "d">>),
         JStr(<<"m", "a", "n", "y", "_", "t", "o", "_", "o", "n", "e">>), JStr(<<"H", "i", "g", "h">>)>>)

\* Another relationship, and one that lacks its type.
OtherRelationship ==
  JObj(<<K_from_table, K_from_column, K_to_table, K_to_column, K_relationship_type>>,
       <<JStr(<<"o", "r", "d", "e", "r", "s">>), JStr(<<"o", "w", "n", "e", "r">>), JStr(<<"o", "w", "n", "e", "r", "s">>), JStr(<<"i", "d">>),
         JStr(<<"m", "a", "n", "y", "_", "t", "o", "_", "o", "n", "e">>)>>)
UntypedRelationship ==
  JObj(<<K_from_table, K_from_column, K_to_table, K_to_column>>,
       <<JStr(<<"o", "r", "d", "e", "r", "s">>), JStr(<<"o", "w", "n", "e", "r">>), JStr(<<"o", "w", "n", "e", "r", "s">>), JStr(<<"i", "d">>)>>)

\* The decoded values apart from their columns: nothing supplied, a label,
\* a label and relationships.
NormShapes ==
  {JEmptyObj,
   JObj(<<K_label>>, <<JStr(<<"O", "r", "d", "e", "r", " ", "I", "t", "e", "m", "s">>)>>),
   JObj(<<K_label, K_suggested_relationships>>,
        <<JStr(<<"O", "r", "d", "e", "r", " ", "I", "t", "e", "m", "s">>),
          JArr(<<SuppliedRelationship, UntypedRelationship, RepeatedRelationship,
                 OtherRelationship, SuppliedRelationship>>)>>),
   JObj(<<K_label, K_suggested_relationships>>,
        <<JStr(<<"O", "r", "d", "e", "r", " ", "I", "t", "e", "m", "s">>), JArr(<<UntypedRelationship, JStr(<<"x">>)>>)>>)}

\* The existing schema of the normalizer's runs.
NormSchema == <<"T", "a", "b", "l", "e", " ", "u", "s", "e", "r", "s", ":", "\n", " ", " ", "i", "d", "\n", "T", "a", "b", "l", "e", " ", "o", "w", "n", "e", "r", "s", ":", "\n", " ", " ", "i", "d">>

\* The decoded values: every column list with nothing else supplied, and the
\* short column lists with each of the shapes.
NormInputs ==
  {DictSet(JEmptyObj, K_columns, JArr(cols)) : cols \in TextsUpTo(ColumnChoices, MaxCols)}
    \cup {DictSet(shape, K_columns, JArr(cols)) :
            shape \in NormShapes, cols \in TextsUpTo(ColumnChoices, MaxShapedCols)}

OrdersPrompt == <<"o", "r", "d", "e", "r", "s", " ", "t", "a", "b", "l", "e">>
NormPrompts ==
  {OrdersPrompt,
   <<"n", "o", " ", "t", "i", "m", "e", "s", "t", "a", "m", "p">>,
   <<"m", "y", "_", "_", "x", "_", " ", "t", "a", "b", "l", "e">>}

\* The long column lists are normalized for one prompt, the short ones for all.
NormInit ==
  /\ pc = "normalize_once"
  /\ value \in NormInputs
  /\ prompt \in NormPrompts
  /\ prompt = OrdersPrompt \/ Len(ListOf(value, K_columns)) <= MaxShapedCols
  /\ current_schema = NormSchema
  /\ result = JNull /\ result2 = JNull
  /\ text = <<>> /\ json_candidate = None /\ first_obj = None
  /\ IdleDecode /\ IdleScan /\ IdleHandler

\* normalize_table_result on the decoded value.
NormalizeOnce ==
  /\ pc = "normalize_once"
  /\ result' = normalize_table_result(value, prompt, current_schema)
  /\ pc' = "normalize_again"
  /\ UNCHANGED <<value, result2, scan_vars, decode_vars, handler_vars, request_vars>>

\* normalize_table_result on its own result.
NormalizeAgain ==
  /\ pc = "normalize_again"
  /\ result2' = normalize_table_result(result, prompt, current_schema)
  /\ pc' = "normalized"
  /\ UNCHANGED <<value, result, scan_vars, decode_vars, handler_vars, request_vars>>

NormNext ==
  \/ NormalizeOnce
  \/ NormalizeAgain

SpecNorm == NormInit /\ [][NormNext]_vars

(* ------------------------------------------------------------------ *)
(* The text rewrites on their own: cleaner, validation, repairer       *)
(* ------------------------------------------------------------------ *)
TextAlphabet == {BS, US, DQ, ",", RS, SP, "a"}

\* Longer texts the rewrites are run on.
TextExamples ==
  {<<"f", "r", "o", "m", "_", "f", "r", "o", "m", "_", "f", "r", "o", "m", "_", "f", "r", "o", "m">>,
   <<"a", "_", "a", "a", "a">>,
   <<"x", "_", "x", "_", "x", "_", "x">>,
   <<"{", "\"", "a", "\"", ":", "1", ",", "}">>,
   <<"[", "1", ",", ",", "]">>,
   <<"[", "1", ",", " ", ",", "]">>,
   <<"{", "\"", "a", "\"", ":", "1", " ", "\"", "b", "\"", ":", "2", "}">>,
   <<"}", "{">>,
   <<"{", "t", "a", "b", "l", "e", "_", "n", "a", "m", "e", "}">>,
   <<"{", "\"", "a", "\"", ":", "[", "1">>,
   <<"\"", "\\", "\"", "a", "\\", "\"", "\"">>,
   <<"BACKTICK", "BACKTICK", "BACKTICK", "j", "s", "o", "n", "\n", "{", "}", "\n", "BACKTICK", "BACKTICK", "BACKTICK">>,
   <<"M", "o", "d", "e", "l", " ", "r", "e", "s", "p", "o", "n", "s", "e", ":", " ", "x", "\n", "{", "}">>}

TextInputs == TextsUpTo(TextAlphabet, MaxTextLen) \cup TextExamples

TextInit ==
  /\ pc = "raw"
  /\ response_text \in TextInputs
  /\ text = <<>>
  /\ attempt_idx = 0 /\ last_raw = <<>> /\ last_error = "none" /\ generations = 0
  /\ json_candidate = None /\ first_obj = None
  /\ IdleDecode /\ IdleScan /\ IdleRequest /\ IdleNorm

\* Lines 356-384 on the raw text.
CleanOnce ==
  /\ pc = "raw"
  /\ text' = clean(response_text)
  /\ pc' = "cleaned"
  /\ UNCHANGED <<json_candidate, first_obj, decoded, repairs, scan_vars,
                 handler_vars, request_vars, norm_vars>>

\* Lines 356-384 on the cleaned text, which takes the place of the raw one.
CleanAgain ==
  /\ pc = "cleaned"
  /\ response_text' = text
  /\ text' = clean(text)
  /\ pc' = "cleaned_again"
  /\ UNCHANGED <<json_candidate, first_obj, decoded, repairs, scan_vars,
                 attempt_idx, last_raw, last_error, generations,
                 request_vars, norm_vars>>

\* validate_and_repair_json on the raw text: ValueError on an empty one.
ValidateText ==
  /\ pc = "raw"
  /\ IF response_text = <<>>
     THEN /\ decoded' = Raised("ValueError")
          /\ pc' = "validate_raised"
          /\ UNCHANGED text
     ELSE /\ text' = validate_and_repair_json(response_text)
          /\ pc' = "validated"
          /\ UNCHANGED decoded
  /\ UNCHANGED <<json_candidate, first_obj, repairs, scan_vars,
                 handler_vars, request_vars, norm_vars>>

\* repair_common_json_issues on the raw text.
RepairText ==
  /\ pc = "raw"
  /\ text' = repair_common_json_issues(response_text)
  /\ pc' = "repaired"
  /\ UNCHANGED <<json_candidate, first_obj, decoded, repairs, scan_vars,
                 handler_vars, request_vars, norm_vars>>

TextNext ==
  \/ CleanOnce
  \/ CleanAgain
  \/ ValidateText
  \/ RepairText

SpecText == TextInit /\ [][TextNext]_vars

(* ------------------------------------------------------------------ *)
(* Properties of the decoder and the handler (Spec)                    *)
(* ------------------------------------------------------------------ *)
NotJsonAtAll == <<"n", "o", "t", " ", "j", "s", "o", "n", " ", "a", "t", " ", "a", "l", "l">>
TruncatedJson == <<"{", "\"", "a", "\"", ":", "[", "1", ",">>

\* parse_model_json_response has returned or raised in the current attempt.
DecodeDone == decoded # Pending

\* C1 as stated: decode never raises, whatever the input, and returns the
\* last-resort structure when nothing parses.
C1_DecodeNeverRaises ==
  DecodeDone =>
    /\ decoded.kind = "value"
    /\ (~json_loads(json_candidate.s).ok
        /\ ~json_loads(repair_common_json_issues(json_candidate.s)).ok)
         => decoded.val = last_resort

\* C1, amended: decode returns a value exactly when the scanner finds a
\* candidate in the cleaned, validated text and raises JSONDecodeError when it
\* finds none, as it does on the empty string, on 'not json at all' and on an
\* object cut off inside a nested array; when a candidate is found and neither
\* it nor its repair parses, the value is the last-resort structure with a
\* non-empty error field and empty columns.
C1_RaisesWithoutCandidate ==
  DecodeDone =>
    /\ (decoded.kind = "raise") <=> ~extract_first_json_value(text).ok
    /\ decoded.kind \in {"raise", "value"}
    /\ response_text \in {<<>>, NotJsonAtAll, TruncatedJson} => decoded.kind = "raise"
    /\ (/\ decoded.kind = "value"
        /\ ~json_loads(json_candidate.s).ok
        /\ ~json_loads(repair_common_json_issues(json_candidate.s)).ok)
         => /\ decoded.val = last_resort
            /\ DictGet(decoded.val, K_error, JNull).s # <<>>
            /\ DictGet(decoded.val, K_columns, JNull) = JArr(<<>>)

\* C1's case: decode has raised on the truncated object.
C1_Witness == response_text = TruncatedJson /\ decoded.kind = "raise"

\* A structurally valid TableSpec: a label, a columns list that holds a
\* primary-key column, a suggested_relationships list.
ValidTableSpec(spec) ==
  /\ spec.t = "obj"
  /\ DictGet(spec, K_label, JNull).t = "str"
  /\ DictGet(spec, K_columns, JNull).t = "arr"
  /\ \E k \in 1..Len(DictGet(spec, K_columns, JNull).items) :
       DictGet(DictGet(spec, K_columns, JNull).items[k], K_isPrimaryKey, JNull) = JTrue
  /\ DictGet(spec, K_suggested_relationships, JNull).t = "arr"

\* The handler's positions: inside an attempt, at the fallback, or returned.
HandlerSteps ==
  {"attempt", "clean", "scan", "unwrap", "loads", "repair", "check",
   "normalize", "fallback", "done"}

\* C2: no exception leaves the handler (a caught exception leads to the next
\* attempt or to the fallback, whichever outputs the two attempts received),
\* the response is a structurally valid TableSpec, and when both attempts
\* failed the failure is reported in its error field.
C2_AlwaysValidTableSpec ==
  /\ pc \in HandlerSteps
  /\ pc = "done" => ValidTableSpec(result)
  /\ (pc = "done" /\ value = JNull) =>
       /\ last_error # "none"
       /\ DictGet(result, K_error, JNull).t = "str"
       /\ DictGet(result, K_error, JNull).s # <<>>

\* C2's case: the second attempt's output decoded to a non-mapping after the
\* first attempt failed, and the caller got the fallback.
C2_Witness ==
  /\ pc = "done"
  /\ attempt_idx = 2
  /\ last_error = "ValueError"
  /\ DictHas(result, K_error)

\* The candidate that is parsed, from the scanner's and the unwrapper's results.
ParsedCandidate ==
  IF first_obj.ok /\ first_obj.s # <<>> THEN first_obj.s
  ELSE extract_first_json_value(text).s

\* C8: decode raises only JSONDecodeError and exactly when the scanner finds
\* nothing in the cleaned, validated text; otherwise it returns the strict
\* parse of the (possibly unwrapped) candidate when that succeeds, with no
\* repair made, else the strict parse of the repaired candidate when that
\* succeeds, else the last-resort value, with exactly one repair made.
C8_DecodeSequencing ==
  DecodeDone =>
    /\ text = pre_scan_text(response_text)
    /\ IF ~extract_first_json_value(text).ok
       THEN decoded = Raised("JSONDecodeError") /\ repairs = 0
       ELSE IF json_loads(ParsedCandidate).ok
       THEN decoded = Returned(json_loads(ParsedCandidate).val) /\ repairs = 0
       ELSE IF json_loads(repair_common_json_issues(ParsedCandidate)).ok
       THEN /\ decoded = Returned(json_loads(repair_common_json_issues(ParsedCandidate)).val)
            /\ repairs = 1
       ELSE /\ decoded = Returned(last_resort)
            /\ DictGet(last_resort, K_label, JNull) = JStr(ErrorTable)
            /\ DictGet(last_resort, K_error, JNull).s # <<>>
            /\ repairs = 1

\* C8's case: the first parse failed and the repaired candidate parsed.
C8_Witness ==
  /\ repairs = 1
  /\ decoded.kind = "value"
  /\ decoded.val # last_resort

\* C9 as stated: when the output is a well-formed JSON object X followed by
\* any trailing text, decode returns the strict parse of X.
C9_TrailingTextIgnored ==
  DecodeDone =>
    \A n \in 1..Len(response_text) :
      (/\ response_text[1] = LB
       /\ response_text[n] = RB
       /\ json_loads(SubSeq(response_text, 1, n)).ok)
        => decoded = Returned(json_loads(SubSeq(response_text, 1, n)).val)

\* The fixed response of lines 729-748, apart from its error text and metadata.
FixedFallback(spec) ==
  /\ DictGet(spec, K_label, JNull) = JStr(infer_table_label_from_prompt(prompt))
  /\ DictGet(spec, K_columns, JNull) = JArr(<<PlainColumn(IdText, IdText, Uuid, TRUE)>>)
  /\ DictGet(spec, K_suggested_relationships, JNull) = JArr(<<>>)
  /\ DictGet(spec, K_error, JNull).t = "str"
  /\ DictGet(spec, K_error, JNull).s # <<>>

\* The handler returned from inside the loop (value holds what it normalized).
ReturnedFromAttempt == pc = "done" /\ value # JNull

\* The handler returned after the loop.
ReturnedFallback == pc = "done" /\ value = JNull

\* What holds of every state of the handler: at most two generations, one per
\* attempt begun; the second attempt only after an exception; a return from
\* the loop gives the normalized value of the attempt under way, all earlier
\* attempts having raised; the fixed response only after two generations.
AttemptsInOrder ==
  /\ attempt_idx \in {1, 2}
  /\ generations <= 2
  /\ generations <= attempt_idx
  /\ attempt_idx = 2 => last_error # "none" /\ generations >= 1
  /\ attempt_idx = 1 => last_error = "none"
  /\ ReturnedFromAttempt =>
       /\ decoded.kind = "value"
       /\ value = decoded.val
       /\ result = normalize_table_result(decoded.val, prompt, current_schema)
       /\ generations = attempt_idx
  /\ ReturnedFallback =>
       /\ generations = 2
       /\ attempt_idx = 2
       /\ last_error # "none"
       /\ FixedFallback(result)

\* What holds of every step of the handler: a generation is the first step
\* of an attempt; an exception of the first attempt begins the second and one
\* of the second leads to the fixed response; a decoded mapping, the
\* last-resort one included, is normalized and returned in the next step.
AttemptStep ==
  /\ generations' # generations =>
       pc = "attempt" /\ generations' = generations + 1 /\ generations = attempt_idx - 1
  /\ last_error' # last_error \/ attempt_idx' # attempt_idx =>
       /\ last_error' # "none"
       /\ pc' = IF attempt_idx = 1 THEN "attempt" ELSE "fallback"
       /\ attempt_idx' = 2
  /\ (pc' = "attempt" /\ pc # "attempt") => attempt_idx = 1 /\ last_error' # last_error
  /\ (pc' = "fallback" /\ pc # "fallback") =>
       attempt_idx = 2 /\ generations' = 2 /\ last_error' # "none"
  /\ pc = "normalize" =>
       /\ pc' = "done"
       /\ result' = normalize_table_result(decoded.val, prompt, current_schema)
       /\ generations' = generations /\ attempt_idx' = attempt_idx
  /\ (pc = "check" /\ decoded = Returned(last_resort)) => pc' = "normalize"
  /\ pc' = "done" => pc \in {"normalize", "fallback", "done"}
  /\ pc = "done" => UNCHANGED vars

\* C18: with a loaded model, generation is invoked at most twice; the second
\* (fallback) prompt is sent only after the first attempt raised; the handler
\* returns the normalized result of the first attempt that does not raise, so
\* a last-resort value decoded on the first attempt is normalized and returned
\* after one generation; the fixed fallback response is returned only after
\* both attempts raised.
C18_AttemptOrdering == []AttemptsInOrder /\ [][AttemptStep]_vars

\* C18's case: the first attempt decoded the last-resort value, and the
\* handler returned its normalization after a single generation.
C18_Witness ==
  /\ ReturnedFromAttempt
  /\ attempt_idx = 1
  /\ generations = 1
  /\ decoded = Returned(last_resort)
  /\ DictGet(result, K_label, JNull) = JStr(ErrorTable)


(* ------------------------------------------------------------------ *)
(* Properties of the scanner and the unwrapper (SpecScan)              *)
(* ------------------------------------------------------------------ *)
\* extract_first_json_value has returned.
ScanDone == pc \in {"scan_found", "scan_none", "unwrapped"}
ScanFound == pc \in {"scan_found", "unwrapped"}

\* j is the text of one well-formed JSON object or array.
WellFormedJson(j) ==
  /\ j # <<>>
  /\ j[1] \in {LB, LS}
  /\ j[Len(j)] \in {RB, RS}
  /\ json_loads(j).ok

\* p holds no opening brace or bracket.
NoBracket(p) == \A k \in 1..Len(p) : p[k] \notin {LB, LS}

\* The string state of a reader that starts outside any string at the head of
\* s, after its first n characters: a quote opens a string, a backslash inside
\* one takes the next character with it, a bare quote closes it.
RECURSIVE quote_state(_, _, _, _)
quote_state(s, n, inside, escaped) ==
  IF n = 0 \/ s = <<>> THEN inside
  ELSE IF inside /\ escaped THEN quote_state(Tail(s), n - 1, TRUE, FALSE)
  ELSE IF inside /\ s[1] = BS THEN quote_state(Tail(s), n - 1, TRUE, TRUE)
  ELSE IF s[1] = DQ THEN quote_state(Tail(s), n - 1, ~inside, FALSE)
  ELSE quote_state(Tail(s), n - 1, inside, FALSE)

\* The character at index k of s lies inside double-quoted content of s.
InsideQuotes(s, k) == quote_state(s, k - 1, FALSE, FALSE)

\* C3 as stated: for every well-formed JSON object or array J and every prose
\* P1, P2, brackets and quotes in P1 included, the scan of P1 + J + P2 returns
\* exactly J.
C3_AnyProse ==
  ScanDone =>
    \A a \in 1..Len(text) : \A b \in a..Len(text) :
      WellFormedJson(SubSeq(text, a, b)) => json_candidate = Some(SubSeq(text, a, b))

\* C3, amended: for every well-formed JSON object or array J, every prose P1
\* that holds neither { nor [ (quotes allowed) and every prose P2, the scan of
\* P1 + J + P2 returns exactly J.
C3_BracketFreePrefix ==
  ScanDone =>
    \A a \in 1..Len(text) : \A b \in a..Len(text) :
      (WellFormedJson(SubSeq(text, a, b)) /\ NoBracket(SubSeq(text, 1, a - 1)))
        => json_candidate = Some(SubSeq(text, a, b))

\* C3's case: a well-formed value after prose that holds a quote and before
\* more prose has been scanned.
C3_Witness ==
  /\ pc = "scan_found"
  /\ \E a \in 2..Len(text) : \E b \in a..(Len(text) - 1) :
       /\ WellFormedJson(SubSeq(text, a, b))
       /\ NoBracket(SubSeq(text, 1, a - 1))
       /\ \E k \in 1..(a - 1) : text[k] = DQ

\* C4 as stated: whenever the scan returns a Candidate, neither its first nor
\* its last character lies inside double-quoted content of the input text.
C4_OutsideQuotesOfText ==
  ScanFound => ~InsideQuotes(text, start) /\ ~InsideQuotes(text, i)

\* C4, amended: whenever the scan returns a Candidate, its last character does
\* not lie inside double-quoted content of the text read from the Candidate's
\* first character on (the lowest index of { or [, where the scanner takes
\* itself to be outside any string; the text before it is never examined).
C4_OutsideQuotesFromStart ==
  ScanFound =>
    /\ text[start] \in {LB, LS}
    /\ NoBracket(SubSeq(text, 1, start - 1))
    /\ ~InsideQuotes(Drop(text, start), i - start + 1)

\* C4's case: a Candidate was returned whose quoted content holds a closing
\* brace or bracket that the scan passed over.
C4_Witness ==
  /\ pc = "scan_found"
  /\ \E k \in (start + 1)..(i - 1) :
       /\ text[k] \in {RB, RS}
       /\ InsideQuotes(Drop(text, start), k - start + 1)

\* The positions of the object elements of a decoded array.
ObjectElements(arr) == {k \in 1..Len(arr.items) : arr.items[k].t = "obj"}

\* C10 as stated, on candidates that are well-formed arrays: the unwrapper
\* returns the array's first object element when it has one and None when it
\* has none; a candidate that is not array-shaped yields None.
C10_FirstObjectElement ==
  pc = "unwrapped" =>
    LET cand == json_candidate.s
        arr == json_loads(cand)
        objs == ObjectElements(arr.val)
        head == CHOOSE k \in objs : \A m \in objs : k <= m
    IN  /\ cand[1] # LS => first_obj = None
        /\ (cand[1] = LS /\ arr.ok /\ objs = {}) => first_obj = None
        /\ (cand[1] = LS /\ arr.ok /\ objs # {}) =>
             /\ first_obj.ok
             /\ first_obj.s[1] = LB
             /\ json_loads(first_obj.s) = [ok |-> TRUE, val |-> arr.val.items[head]]

\* The lowest index of { or [ in s, 0 when it holds neither.
FirstBracket(s) ==
  IF NoBracket(s) THEN 0 ELSE Least({k \in 1..Len(s) : s[k] \in {LB, LS}})

\* The bracket at index k of s counts for a scan that starts at index from:
\* it lies outside the strings of the text read from there.
Structural(s, from, k) ==
  /\ k >= from
  /\ s[k] \in {LB, LS, RB, RS}
  /\ ~InsideQuotes(Drop(s, from), k - from + 1)

\* The opening and the closing brackets that count, up to index k.
Opens(s, from, k) == {j \in from..k : Structural(s, from, j) /\ s[j] \in {LB, LS}}
Closes(s, from, k) == {j \in from..k : Structural(s, from, j) /\ s[j] \in {RB, RS}}

\* The number of brackets left open after index k.
Depth(s, from, k) == Cardinality(Opens(s, from, k)) - Cardinality(Closes(s, from, k))

\* The closing bracket at index c does not match the bracket it closes, the
\* last one opened before it at its depth.
Mismatched(s, from, c) ==
  LET partners == {o \in Opens(s, from, c) : Depth(s, from, o) = Depth(s, from, c) + 1}
  IN  \/ partners = {}
      \/ <<s[Greatest(partners)], s[c]>> \notin {<<LB, RB>>, <<LS, RS>>}

\* The indices at which every bracket opened since from is closed.
Emptied(s, from) == {e \in Closes(s, from, Len(s)) : Depth(s, from, e) = 0}

\* What the bracket walk from index from yields.
WalkResult(s, from) ==
  IF from = 0 \/ Emptied(s, from) = {} THEN None
  ELSE IF \E c \in Closes(s, from, Least(Emptied(s, from))) : Mismatched(s, from, c)
  THEN None
  ELSE Some(SubSeq(s, from, Least(Emptied(s, from))))

\* C14: the scan walks from the lowest index of { or [, ignoring brackets
\* inside strings, a backslash inside a string escaping exactly the next
\* character; it returns a Candidate exactly when the bracket stack first
\* empties at some index with no mismatched closing bracket before it, the
\* Candidate being the text from the start through that index; a closing
\* bracket of the wrong kind, and a stack that never empties, yield NotFound.
C14_ScannerStateMachine ==
  /\ pc \in {"scan_loop", "scan_found", "scan_none", "unwrapped"} =>
       start = FirstBracket(text)
  /\ pc = "scan_loop" =>
       /\ in_string = InsideQuotes(Drop(text, start), i - start + 1)
       /\ Len(stack) = Depth(text, start, i - 1)
       /\ json_candidate = None
  /\ ScanFound =>
       /\ i = Least(Emptied(text, start))
       /\ json_candidate = Some(SubSeq(text, start, i))
  /\ ScanDone => json_candidate = WalkResult(text, start)

\* C14's case: the scan met a closing bracket of the wrong kind, after a
\* string that holds a bracket, and returned NotFound.
C14_Witness ==
  /\ pc = "scan_none"
  /\ start > 0
  /\ i <= Len(text)
  /\ text[i] \in {RB, RS}
  /\ stack # <<>>
  /\ \E k \in start..i : text[k] \in {LB, LS, RB, RS} /\ ~Structural(text, start, k)

(* ------------------------------------------------------------------ *)
(* Properties of the normalizer (SpecNorm)                             *)
(* ------------------------------------------------------------------ *)
\* normalize_table_result has returned for the decoded value.
Normalized == pc \in {"normalize_again", "normalized"}

\* The positions of the primary-key columns of a TableSpec.
PrimaryKeys(spec) ==
  {k \in 1..Len(ListOf(spec, K_columns)) :
     DictGet(ListOf(spec, K_columns)[k], K_isPrimaryKey, JNull) = JTrue}

\* The positions of the supplied columns that are marked as primary key.
SuppliedKeys(v) ==
  {k \in 1..Len(ListOf(as_dict(v), K_columns)) :
     /\ ListOf(as_dict(v), K_columns)[k].t = "obj"
     /\ Truthy(DictGet(ListOf(as_dict(v), K_columns)[k], K_isPrimaryKey, JFalse))}

\* The values of one field of the columns, in column order.
FieldValues(spec, key) ==
  [k \in 1..Len(ListOf(spec, K_columns)) |->
     DictGet(ListOf(spec, K_columns)[k], key, JNull)]

\* No value occurs twice in the sequence.
Distinct(values) ==
  \A j, k \in 1..Len(values) : j # k => values[j] # values[k]

\* C5 as stated: the normalized TableSpec has exactly one primary-key column,
\* also when two or more supplied columns are marked as primary key.
C5_ExactlyOnePrimaryKey ==
  Normalized => Cardinality(PrimaryKeys(result)) = 1

\* C5, amended: the normalized TableSpec has at least one primary-key column;
\* one is inserted when the supplied columns mark none, and otherwise the
\* primary-key columns are exactly as many as the supplied columns marked so.
C5_AtLeastOnePrimaryKey ==
  Normalized =>
    /\ Cardinality(PrimaryKeys(result)) >= 1
    /\ Cardinality(PrimaryKeys(result)) =
         IF SuppliedKeys(value) = {} THEN 1 ELSE Cardinality(SuppliedKeys(value))
    /\ SuppliedKeys(value) = {} =>
         Len(ListOf(result, K_columns)) > Len(ListOf(value, K_columns))
           - Cardinality({k \in 1..Len(ListOf(value, K_columns)) :
                            ListOf(value, K_columns)[k].t # "obj"})

\* C5's case: two supplied columns are marked as primary key and both are
\* primary-key columns of the normalized TableSpec.
C5_Witness ==
  /\ Normalized
  /\ Cardinality(SuppliedKeys(value)) = 2
  /\ Cardinality(PrimaryKeys(result)) = 2

\* C6 as stated: the columns of the normalized TableSpec have pairwise
\* distinct names and pairwise distinct ids, the inserted primary-key and
\* timestamp columns included.
C6_DistinctNamesAndIds ==
  Normalized =>
    /\ Distinct(FieldValues(result, K_name))
    /\ Distinct(FieldValues(result, K_id))

\* C7 as stated: normalizing a normalized TableSpec again leaves its label,
\* its column ids and names in order, its primary-key columns and its
\* relationship list as they are.
C7_Idempotent ==
  pc = "normalized" =>
    /\ DictGet(result2, K_label, JNull) = DictGet(result, K_label, JNull)
    /\ FieldValues(result2, K_id) = FieldValues(result, K_id)
    /\ FieldValues(result2, K_name) = FieldValues(result, K_name)
    /\ PrimaryKeys(result2) = PrimaryKeys(result)
    /\ ListOf(result2, K_suggested_relationships)
         = ListOf(result, K_suggested_relationships)

\* The 5-tuples of the relationships of a TableSpec, in order.
RelationshipKeys(spec) ==
  [k \in 1..Len(ListOf(spec, K_suggested_relationships)) |->
     [key \in {K_from_table, K_from_column, K_to_table, K_to_column, K_relationship_type}
        |-> DictGet(ListOf(spec, K_suggested_relationships)[k], key, JNull)]]

\* The positions of the supplied relationships that are usable.
UsableSupplied(v) ==
  {k \in 1..Len(ListOf(as_dict(v), K_suggested_relationships)) :
     Usable(ListOf(as_dict(v), K_suggested_relationships)[k])}

\* C12: no two relationships of the normalized TableSpec have the same 5-tuple
\* (from_table, from_column, to_table, to_column, relationship_type), whether
\* they come from supplied relationships, which are compared sanitized and
\* lower-cased, or are synthesized from foreign-key columns.
C12_DistinctRelationships ==
  /\ Normalized => Distinct(RelationshipKeys(result))
  /\ pc = "normalized" => Distinct(RelationshipKeys(result2))

\* C12's case: several usable relationships were supplied, two of them with
\* the same 5-tuple once sanitized, and fewer were kept.
C12_Witness ==
  /\ Normalized
  /\ Cardinality(UsableSupplied(value)) = 4
  /\ Len(ListOf(result, K_suggested_relationships)) = 2

\* The positions of the supplied primary-key columns that say they are nullable.
SuppliedNullableKeys(v) ==
  {k \in SuppliedKeys(v) :
     DictGet(ListOf(as_dict(v), K_columns)[k], K_isNullable, JNull) = JTrue}

\* C13: every primary-key column of the normalized TableSpec has isNullable
\* false, a supplied column that sets isNullable to true and the inserted
\* primary-key column included.
C13_PrimaryKeyNotNullable ==
  Normalized =>
    \A k \in PrimaryKeys(result) :
      DictGet(ListOf(result, K_columns)[k], K_isNullable, JNull) = JFalse

\* C13's case: a supplied primary-key column said it was nullable and was
\* normalized.
C13_Witness ==
  /\ Normalized
  /\ SuppliedNullableKeys(value) # {}
  /\ PrimaryKeys(result) # {}

\* The position in the normalized column list of the supplied column k: after
\* the inserted primary key, if any, and without the entries that are no dicts.
NormalizedPosition(v, k) ==
  (IF SuppliedKeys(v) = {} THEN 1 ELSE 0)
    + Cardinality({j \in 1..k : ListOf(as_dict(v), K_columns)[j].t = "obj"})

\* A column name without its _id suffix.
WithoutIdSuffix(name) ==
  IF EndsWith(name, IdSuffix) THEN SubSeq(name, 1, Len(name) - 3) ELSE name

\* The first of base, base + "s", base + "es" that is a table of the schema.
ProbedTable(base, tables) ==
  IF base \in tables THEN Some(base)
  ELSE IF (base \o <<"s">>) \in tables THEN Some(base \o <<"s">>)
  ELSE IF (base \o <<"e", "s">>) \in tables THEN Some(base \o <<"e", "s">>)
  ELSE None

\* The supplied columns that end up as foreign keys and name no table.
UnresolvedForeignKeys(v, spec) ==
  {k \in 1..Len(ListOf(as_dict(v), K_columns)) :
     /\ ListOf(as_dict(v), K_columns)[k].t = "obj"
     /\ ~Truthy(DictGet(ListOf(as_dict(v), K_columns)[k], K_referencedTable, JNull))
     /\ DictGet(ListOf(spec, K_columns)[NormalizedPosition(v, k)], K_isForeignKey, JNull)
          = JTrue}

\* The column col refers to the table probed for its name, when there is one,
\* with the column id, and to no table otherwise.
RefersToProbed(col, tables) ==
  IF ProbedTable(WithoutIdSuffix(DictGet(col, K_name, JNull).s), tables).ok
  THEN /\ DictGet(col, K_referencedTable, JNull)
            = JStr(ProbedTable(WithoutIdSuffix(DictGet(col, K_name, JNull).s), tables).s)
       /\ DictGet(col, K_referencedColumn, JNull) = JStr(IdText)
  ELSE ~DictHas(col, K_referencedTable)

\* The foreign-key columns of a TableSpec that refer to a table.
ResolvedForeignKeys(spec) ==
  {k \in 1..Len(ListOf(spec, K_columns)) :
     /\ DictGet(ListOf(spec, K_columns)[k], K_isForeignKey, JNull) = JTrue
     /\ Truthy(DictGet(ListOf(spec, K_columns)[k], K_referencedTable, JNull))}

\* C16 as stated: a foreign-key column, flagged or inferred from a name that
\* ends in _id, that names no table refers to the first of base, base + "s",
\* base + "es" that is a table of the schema, base being its name without the
\* _id suffix, with referencedColumn id, and to no table when none matches;
\* with no usable supplied relationship, one one_to_many relationship is
\* synthesized per foreign-key column that refers to a table.
C16_ReferenceInference ==
  Normalized =>
    /\ \A k \in UnresolvedForeignKeys(value, result) :
         RefersToProbed(ListOf(result, K_columns)[NormalizedPosition(value, k)],
                        ToSet(extract_schema_table_names(current_schema)))
    /\ UsableSupplied(value) = {} =>
         /\ Len(ListOf(result, K_suggested_relationships))
              = Cardinality(ResolvedForeignKeys(result))
         /\ \A k \in 1..Len(ListOf(result, K_suggested_relationships)) :
              DictGet(ListOf(result, K_suggested_relationships)[k],
                      K_relationship_type, JNull) = JStr(OneToMany)

(* ------------------------------------------------------------------ *)
(* Properties of the text rewrites (SpecText)                          *)
(* ------------------------------------------------------------------ *)
\* C11 as stated: cleaning a cleaned text changes nothing, clean(clean(r)) is
\* clean(r) for every raw text r.
C11_CleanIdempotent ==
  pc = "cleaned_again" => text = response_text

\* The token w written n times with an underscore between the copies.
RECURSIVE Underscored(_, _)
Underscored(w, n) == IF n <= 1 THEN w ELSE w \o <<US>> \o Underscored(w, n - 1)

\* w is a token: word characters, none of them an underscore.
IsToken(w) == w # <<>> /\ \A k \in 1..Len(w) : IsWord(w[k]) /\ w[k] # US

\* C15 as stated: a text that is a token repeated 4 or more times with an
\* underscore between the copies (from_from_from_from) comes out of the
\* validation as a single occurrence of the token.
C15_RepeatedTokenCollapsed ==
  pc = "validated" =>
    \A m \in 1..Len(response_text) : \A n \in 4..Len(response_text) :
      (/\ IsToken(SubSeq(response_text, 1, m))
       /\ response_text = Underscored(SubSeq(response_text, 1, m), n))
        => text = SubSeq(response_text, 1, m)

\* Only whitespace lies strictly between the indices k and j of s.
BlankBetween(s, k, j) == \A n \in (k + 1)..(j - 1) : IsSpace(s[n])

\* The comma at index k of s is followed, after optional whitespace, by a
\* closing brace or bracket.
CommaBeforeCloser(s, k) ==
  /\ s[k] = ","
  /\ \E j \in (k + 1)..Len(s) : s[j] \in {RB, RS} /\ BlankBetween(s, k, j)

HasTrailingComma(s) == \E k \in 1..Len(s) : CommaBeforeCloser(s, k)

\* s has a comma followed, after optional whitespace, by a comma that is
\* itself followed, after optional whitespace, by a closing brace or bracket.
HasRepeatedTrailingComma(s) ==
  \E k \in 1..Len(s) : \E j \in (k + 1)..Len(s) :
    s[k] = "," /\ BlankBetween(s, k, j) /\ CommaBeforeCloser(s, j)

\* The rewrites of the repairer, one after the other, each applied once.
RewritesInOrder(s) ==
  sub_trailing_comma(
    sub_missing_comma(
      sub_pair(sub_pair(s, 1, RB, LB, <<",">>), 1, RS, LS, <<",">>), 1), 1)

\* C17 as stated: whatever the input, the repaired text has no comma that is
\* followed, after optional whitespace, by a closing brace or bracket.
C17_NoTrailingComma ==
  pc = "repaired" => ~HasTrailingComma(text)

\* C17, amended: the repaired text is the input after the rewrites applied once
\* each in their order, and since the trailing-comma rewrite removes one comma
\* per closing bracket, the repaired text has a comma followed (after optional
\* whitespace) by } or ] exactly when the input has two commas in a row, apart
\* from whitespace, before a closing bracket.
C17_OneCommaPerCloser ==
  pc = "repaired" =>
    /\ text = RewritesInOrder(response_text)
    /\ HasTrailingComma(text) <=> HasRepeatedTrailingComma(response_text)

\* A text with trailing commas, none of them repeated, has been repaired and
\* has none left.
C17_Witness ==
  /\ pc = "repaired"
  /\ HasTrailingComma(response_text)
  /\ ~HasRepeatedTrailingComma(response_text)
  /\ ~HasTrailingComma(text)
  /\ Len(text) < Len(response_text)

====
